---- MODULE Spec2Model ----
(***************************************************************************)
(* Model of rosqa: the rospec loader (rospec_loader.py), the graph model   *)
(* (model.py), the effective-binding resolver, the connectivity engine and *)
(* the question generator (questions.py).                                  *)
(*                                                                         *)
(* Strings that the code inspects character by character (endpoint names,  *)
(* parameter values) are sequences of atoms: an atom is a double quote, a  *)
(* single quote, a blank, the opening "content(", the closing ")", or a    *)
(* chunk of other characters.  Names that the code only compares (node     *)
(* type names, parameter names, the node names of the connectivity graphs) *)
(* are plain strings; a name written into a question is a sequence of      *)
(* atoms.                                                                  *)
(***************************************************************************)
EXTENDS Integers, Sequences, FiniteSets, TLC

VARIABLES
    text,        \* the specification text, a sequence of lexical items
    pos,         \* finditer position of _parse_node_types in text
    pc,          \* "policies" | "type_aliases" | "message_aliases" | "types" |
                 \* "system" | "loaded" | "bfs" | "done" | "fakes" | "generated"
    node_types,  \* Graph.node_types : type name -> NodeType
    nodes,       \* Graph.nodes      : node name -> Node
    topics,      \* Graph.topics     : topic name -> Topic
    services,    \* Graph.services   : service name -> Service
    qsrc, qdst,  \* arguments of the running _has_communication_path call
    adj,         \* its local adj
    visited,     \* its local visited
    queue,       \* its local q
    result,      \* its return value, "none" while it has not returned
    eff,         \* the last effective_* call: [fn, node, names]
    qos_policies,     \* Graph.qos_policies    : policy name -> QoSPolicy
    type_aliases,     \* Graph.type_aliases    : alias name -> TypeAlias
    message_aliases,  \* Graph.message_aliases : alias name -> MessageAlias
    first,       \* the text and the Graph of the previous load_graph_from_rospec call
    questions,   \* the list generate_questions returned
    dequeues,    \* the q.popleft() calls of the running _has_communication_path call
    answers,     \* the calls of a series of _has_communication_path calls that
                 \* have returned: [src, dst, result]
    gen          \* the locals of the running _generate_fake_entities call

vars == <<text, pos, pc, node_types, nodes, topics, services,
          qsrc, qdst, adj, visited, queue, result, eff,
          qos_policies, type_aliases, message_aliases, first, questions, dequeues,
          answers, gen>>

graphVars == <<node_types, nodes, topics, services,
               qos_policies, type_aliases, message_aliases>>
queryVars == <<qsrc, qdst, adj, visited, queue, result, dequeues, answers, gen>>

(***************************************************************************)
(* Bounds                                                                  *)
(***************************************************************************)
MaxNodes == 3
MaxRemaps == 2
MaxStmts == 3
MaxFakes == 1

(***************************************************************************)
(* Atoms and the strings of the scenarios                                  *)
(***************************************************************************)
DQ == "\""
SQ == "'"
SP == " "
ContentOpen == "content("
ContentClose == ")"

\* atoms that match \w+
WordAtoms == {"svc_name"}

Scan == <<"/scan">>
ScanRaw == <<"/scan", "/raw">>
RealService == <<"/real_service">>
Other == <<"/other">>
ScanType == <<"sensor/Scan">>
SrvType == <<"pkg/Type">>
AltType == <<"pkg/Alt">>

Quoted(s) == <<DQ>> \o s \o <<DQ>>
SingleQuoted(s) == <<SQ>> \o s \o <<SQ>>

\* the text content(<param>), as the loader reads it and as the f-string of
\* _effective_uses writes it
Placeholder(param) == <<ContentOpen, param, ContentClose>>

(***************************************************************************)
(* Small helpers of questions.py                                           *)
(***************************************************************************)
RECURSIVE LStrip(_)
LStrip(s) == IF s # <<>> /\ Head(s) = SP THEN LStrip(Tail(s)) ELSE s

RECURSIVE RStrip(_)
RStrip(s) == IF s # <<>> /\ s[Len(s)] = SP THEN RStrip(SubSeq(s, 1, Len(s) - 1)) ELSE s

\* str.strip()
Strip(s) == RStrip(LStrip(s))

StripQuotesKeepsQuotes(s) == Strip(s)

\* _strip_quotes
StripQuotes(s) ==
    LET t == Strip(s) IN
    IF Len(t) >= 2 /\ ((t[1] = DQ /\ t[Len(t)] = DQ) \/ (t[1] = SQ /\ t[Len(t)] = SQ))
    THEN SubSeq(t, 2, Len(t) - 1)
    ELSE t

NoParam == ""

\* Python's None, for an optional string
None == <<"None">>

\* _maybe_content_param: _CONTENT_RE = ^content\((?P<param>\w+)\)$ on name.strip()
MaybeContentParam(name) ==
    LET t == Strip(name) IN
    IF Len(t) = 3 /\ t[1] = ContentOpen /\ t[2] \in WordAtoms /\ t[3] = ContentClose
    THEN t[2]
    ELSE NoParam

\* _resolve_content_name
ResolveContentName(raw_name, node) ==
    LET param == MaybeContentParam(raw_name) IN
    IF param = NoParam THEN raw_name
    ELSE IF param \in DOMAIN node.param_assigns
         THEN StripQuotes(node.param_assigns[param].value)
         ELSE raw_name

(***************************************************************************)
(* Remaps and effective names                                              *)
(***************************************************************************)
ApplyRemapsChained(name, node) ==
    LET once(n) ==
            LET hits == {i \in 1..Len(node.remaps) : node.remaps[i].frm = n} IN
            IF hits = {} THEN n
            ELSE node.remaps[CHOOSE i \in hits : \A j \in hits : i <= j].to
    IN  once(once(name))

\* _apply_remaps: the first remap, in list order, whose frm equals the name
ApplyRemaps(name, node) ==
    LET hits == {i \in 1..Len(node.remaps) : node.remaps[i].frm = name} IN
    IF hits = {} THEN name
    ELSE node.remaps[CHOOSE i \in hits : \A j \in hits : i <= j].to

EffectiveRemapFirst(raw, node) == ResolveContentName(ApplyRemaps(raw, node), node)

\* the loop body shared by the four functions: resolve, then remap
Effective(raw, node) == ApplyRemaps(ResolveContentName(raw, node), node)

EffectivePublishesNoRemap(node) ==
    {ResolveContentName(d[1], node) : d \in node.node_type.publishes}

\* _effective_publishes
EffectivePublishes(node) == {Effective(d[1], node) : d \in node.node_type.publishes}

\* _effective_subscribes
EffectiveSubscribes(node) == {Effective(d[1], node) : d \in node.node_type.subscribes}

\* _effective_provides
EffectiveProvides(node) == {Effective(d[1], node) : d \in node.node_type.provides}

\* _effective_uses: the explicit uses, then the consumes_content_services
\* triples ("<content>", param_name, srv_type)
EffectiveUses(node) ==
    {Effective(d[1], node) : d \in node.node_type.uses}
    \cup {IF c[2] \in DOMAIN node.param_assigns
          THEN ApplyRemaps(StripQuotes(node.param_assigns[c[2]].value), node)
          ELSE Placeholder(c[2])
          : c \in node.node_type.consumes_content_services}

(***************************************************************************)
(* Connectivity                                                            *)
(***************************************************************************)
NodeList(g_nodes) == {g_nodes[k] : k \in DOMAIN g_nodes}

TopicEdgesBothWays(g_nodes) ==
    LET hits == {e \in NodeList(g_nodes) \X NodeList(g_nodes) :
                    /\ EffectivePublishes(e[1]) # {}
                    /\ e[1].name # e[2].name
                    /\ EffectivePublishes(e[1]) \cap EffectiveSubscribes(e[2]) # {}}
    IN  {<<e[1].name, e[2].name>> : e \in hits} \cup {<<e[2].name, e[1].name>> : e \in hits}

\* _build_adjacency, first loop: publisher -> subscriber
TopicEdges(g_nodes) ==
    {<<src.name, dst.name>> : <<src, dst>> \in
        {e \in NodeList(g_nodes) \X NodeList(g_nodes) :
            /\ EffectivePublishes(e[1]) # {}
            /\ e[1].name # e[2].name
            /\ EffectivePublishes(e[1]) \cap EffectiveSubscribes(e[2]) # {}}}

ServiceEdgesOneWay(g_nodes) ==
    {<<client.name, server.name>> : <<client, server>> \in
        {e \in NodeList(g_nodes) \X NodeList(g_nodes) :
            /\ EffectiveUses(e[1]) # {}
            /\ e[2].name # e[1].name
            /\ EffectiveUses(e[1]) \cap EffectiveProvides(e[2]) # {}}}

\* _build_adjacency, second loop: client <-> server, both directions added
ServiceEdges(g_nodes) ==
    LET hits == {e \in NodeList(g_nodes) \X NodeList(g_nodes) :
                    /\ EffectiveUses(e[1]) # {}
                    /\ e[2].name # e[1].name
                    /\ EffectiveUses(e[1]) \cap EffectiveProvides(e[2]) # {}}
    IN  {<<e[1].name, e[2].name>> : e \in hits} \cup {<<e[2].name, e[1].name>> : e \in hits}

\* _build_adjacency
BuildAdjacency(g_nodes) ==
    LET edges == TopicEdges(g_nodes) \cup ServiceEdges(g_nodes) IN
    [name \in DOMAIN g_nodes |-> {d \in DOMAIN g_nodes : <<name, d>> \in edges}]

\* adj.get(cur, set())
AdjGet(a, cur) == IF cur \in DOMAIN a THEN a[cur] ELSE {}

\* the orders in which a for loop may iterate a Python set
Orders(S) == {o \in [1..Cardinality(S) -> S] : \A i, j \in 1..Cardinality(S) : o[i] = o[j] => i = j}

\* the for loop looking at the neighbours of cur without enqueuing any
ScanNbrsDirect(ord, i, dst, vis, q) ==
    [found |-> \E k \in i..Len(ord) : ord[k] = dst, visited |-> vis, queue |-> q]

\* the for loop of _has_communication_path over the neighbours of cur, taken
\* in the order ord, from position i: it returns True at dst, and otherwise
\* marks and enqueues every neighbour not yet visited
RECURSIVE Scan_nbrs(_, _, _, _, _)
Scan_nbrs(ord, i, dst, vis, q) ==
    IF i > Len(ord) THEN [found |-> FALSE, visited |-> vis, queue |-> q]
    ELSE IF ord[i] = dst THEN [found |-> TRUE, visited |-> vis, queue |-> q]
    ELSE IF ord[i] \notin vis
         THEN Scan_nbrs(ord, i + 1, dst, vis \cup {ord[i]}, Append(q, ord[i]))
         ELSE Scan_nbrs(ord, i + 1, dst, vis, q)

QueryNoSelfCheck(src, dst) ==
    /\ pc = "loaded"
    /\ qsrc' = src
    /\ qdst' = dst
    /\ adj' = BuildAdjacency(nodes)
    /\ visited' = {src}
    /\ queue' = <<src>>
    /\ result' = "none"
    /\ dequeues' = 0
    /\ pc' = "bfs"
    /\ UNCHANGED <<text, pos, graphVars, eff, first, questions, answers, gen>>

\* _has_communication_path, up to the while loop
Query(src, dst) ==
    /\ pc = "loaded"
    /\ qsrc' = src
    /\ qdst' = dst
    /\ IF src = dst
       THEN /\ result' = FALSE
            /\ pc' = "done"
            /\ UNCHANGED <<adj, visited, queue>>
       ELSE /\ adj' = BuildAdjacency(nodes)
            /\ visited' = {src}
            /\ queue' = <<src>>
            /\ result' = "none"
            /\ pc' = "bfs"
    /\ UNCHANGED <<text, pos, graphVars, eff, first, questions, dequeues, answers, gen>>

\* the while loop with q[0] read in place of q.popleft()
BfsStepNoPop ==
    /\ pc = "bfs"
    /\ queue # <<>>
    /\ \E ord \in Orders(AdjGet(adj, Head(queue))) :
         LET r == Scan_nbrs(ord, 1, qdst, visited, queue) IN
         /\ visited' = r.visited
         /\ queue' = r.queue
         /\ IF r.found
            THEN result' = TRUE /\ pc' = "done"
            ELSE result' = result /\ pc' = pc
    /\ dequeues' = dequeues + 1
    /\ UNCHANGED <<text, pos, graphVars, qsrc, qdst, adj, eff, first, questions, answers, gen>>

\* one iteration of the while loop: popleft, then the for loop
BfsStep ==
    /\ pc = "bfs"
    /\ queue # <<>>
    /\ \E ord \in Orders(AdjGet(adj, Head(queue))) :
         LET r == Scan_nbrs(ord, 1, qdst, visited, Tail(queue)) IN
         /\ visited' = r.visited
         /\ queue' = r.queue
         /\ IF r.found
            THEN result' = TRUE /\ pc' = "done"
            ELSE result' = result /\ pc' = pc
    /\ dequeues' = dequeues + 1
    /\ UNCHANGED <<text, pos, graphVars, qsrc, qdst, adj, eff, first, questions, answers, gen>>

\* the while loop ends on an empty queue: return False
BfsExit ==
    /\ pc = "bfs"
    /\ queue = <<>>
    /\ result' = FALSE
    /\ pc' = "done"
    /\ UNCHANGED <<text, pos, graphVars, qsrc, qdst, adj, visited, queue, eff, first,
                   questions, dequeues, answers, gen>>

\* the call has returned; the graph is ready for the next call
Return ==
    /\ pc = "done"
    /\ pc' = "loaded"
    /\ qsrc' = "" /\ qdst' = ""
    /\ adj' = <<>> /\ visited' = {} /\ queue' = <<>>
    /\ result' = "none"
    /\ dequeues' = 0
    /\ UNCHANGED <<text, pos, graphVars, eff, first, questions, answers, gen>>

\* the call has returned to a caller that keeps the answer
ReturnAnswer ==
    /\ pc = "done"
    /\ pc' = "loaded"
    /\ answers' = Append(answers, [src |-> qsrc, dst |-> qdst, result |-> result])
    /\ qsrc' = "" /\ qdst' = ""
    /\ adj' = <<>> /\ visited' = {} /\ queue' = <<>>
    /\ result' = "none"
    /\ dequeues' = 0
    /\ UNCHANGED <<text, pos, graphVars, eff, first, questions, gen>>

(***************************************************************************)
(* Graphs built through the model classes                                  *)
(***************************************************************************)
NodeNameSeq == <<"a", "b", "c", "d", "e", "f">>
NodeNames == {NodeNameSeq[i] : i \in 1..MaxNodes}

NoAssigns == [p \in {} |-> [name |-> p, value |-> <<>>]]
Assign(param, v) == [p \in {param} |-> [name |-> p, value |-> v]]

\* NodeType(name=...) with its communication sets
MkType(name, pub, sub, prov, use, cons) ==
    [name |-> name, publishes |-> pub, subscribes |-> sub, provides |-> prov,
     uses |-> use, consumes_content_services |-> cons,
     qos_attachments |-> {}, other_attachments |-> <<>>, where_block |-> None]

Producer == MkType("Producer", {<<Scan, ScanType>>}, {}, {}, {}, {})
Consumer == MkType("Consumer", {}, {<<Scan, ScanType>>}, {}, {}, {})
Relay == MkType("Relay", {<<Scan, ScanType>>}, {<<ScanRaw, ScanType>>}, {}, {}, {})
Server == MkType("Server", {}, {}, {<<RealService, SrvType>>}, {}, {})
Client == MkType("Client", {}, {}, {}, {<<RealService, SrvType>>}, {})
ContentClient == MkType("ContentClient", {}, {}, {}, {}, {<<"<content>", "svc_name", SrvType>>})
ContentServer == MkType("ContentServer", {}, {}, {<<Placeholder("svc_name"), SrvType>>}, {}, {})

Remap(frm, to) == [frm |-> frm, to |-> to]

Template(nt, assigns, remaps) == [node_type |-> nt, param_assigns |-> assigns, remaps |-> remaps]

\* the node instances the connectivity graphs are built from
NodePool ==
    { Template(Producer, NoAssigns, <<>>),
      Template(Producer, NoAssigns, <<Remap(Scan, ScanRaw)>>),
      Template(Producer, NoAssigns, <<Remap(Scan, Other), Remap(Scan, ScanRaw)>>),
      Template(Consumer, NoAssigns, <<>>),
      Template(Relay, NoAssigns, <<>>),
      Template(Server, NoAssigns, <<>>),
      Template(Client, NoAssigns, <<>>),
      Template(ContentClient, Assign("svc_name", Quoted(RealService)), <<>>),
      Template(ContentClient, NoAssigns, <<>>),
      Template(ContentServer, NoAssigns, <<>>) }

\* Node(name=..., node_type=...)
MkNode(name, t) ==
    [name |-> name, node_type |-> t.node_type, param_assigns |-> t.param_assigns,
     context_assigns |-> NoAssigns, remaps |-> t.remaps]

TypesOf(g_nodes) ==
    LET ts == {g_nodes[k].node_type : k \in DOMAIN g_nodes} IN
    [n \in {t.name : t \in ts} |-> CHOOSE t \in ts : t.name = n]

NoCall == [fn |-> "", node |-> "", names |-> {}]

\* no earlier load_graph_from_rospec call
NoLoad == [loaded |-> FALSE, text |-> <<>>, graph |-> <<>>]

\* _generate_fake_entities has not been called
NoFakeCall == [called |-> FALSE, real_names |-> <<>>, count |-> 0, fake |-> {}, attempts |-> 0]

\* nothing has been called on the graph yet
IdleQuery ==
    /\ qsrc = "" /\ qdst = ""
    /\ adj = <<>> /\ visited = {} /\ queue = <<>>
    /\ result = "none"
    /\ dequeues = 0
    /\ answers = <<>>
    /\ gen = NoFakeCall
    /\ eff = NoCall
    /\ first = NoLoad
    /\ questions = <<>>

\* a graph of at most MaxNodes instances, ready for queries
Init ==
    /\ text = <<>>
    /\ pos = 1
    /\ pc = "loaded"
    /\ \E S \in SUBSET NodeNames : \E f \in [S -> NodePool] :
         /\ nodes = [n \in S |-> MkNode(n, f[n])]
         /\ node_types = TypesOf(nodes)
    /\ topics = <<>>
    /\ services = <<>>
    /\ qos_policies = <<>>
    /\ type_aliases = <<>>
    /\ message_aliases = <<>>
    /\ IdleQuery

QueryNames == NodeNames

Next ==
    \/ \E src \in QueryNames, dst \in QueryNames : Query(src, dst)
    \/ BfsStep
    \/ BfsExit
    \/ Return

Spec == Init /\ [][Next]_vars

(***************************************************************************)
(* Properties of the connectivity engine, checked under Spec               *)
(***************************************************************************)
\* the nodes that one or more edges of a lead to from the set S
RECURSIVE Closure(_, _)
Closure(a, S) ==
    LET T == S \cup UNION {AdjGet(a, n) : n \in S} IN
    IF T = S THEN S ELSE Closure(a, T)

\* a path of one or more edges from s to d
PathExists(a, s, d) == d \in Closure(a, AdjGet(a, s))

Returned == pc = "done"

\* C1: _has_communication_path(src, dst, graph) returns true iff src # dst and
\* the adjacency relation of _build_adjacency holds a path of one or more
\* edges from src to dst; it returns false for src = dst even on a cycle.
C1_PathIff ==
    Returned =>
        (result = TRUE <=>
            (qsrc # qdst /\ PathExists(BuildAdjacency(nodes), qsrc, qdst)))

\* C1 witness: the call returned false for src = dst with src on a cycle
C1_SelfOnCycle ==
    /\ Returned
    /\ qsrc = qdst
    /\ result = FALSE
    /\ PathExists(BuildAdjacency(nodes), qsrc, qsrc)

\* a name that is still content(<param>) with <param> unassigned on the node
Unresolved(s, node) ==
    /\ MaybeContentParam(s) # NoParam
    /\ MaybeContentParam(s) \notin DOMAIN node.param_assigns

\* the names two nodes share in a way that makes an edge between them
SharedNames(x, y) ==
    (EffectivePublishes(x) \cap EffectiveSubscribes(y))
    \cup (EffectiveUses(x) \cap EffectiveProvides(y))
    \cup (EffectiveUses(y) \cap EffectiveProvides(x))

\* C4: no edge of _build_adjacency exists only because an unresolved
\* content(<param>) name is in both nodes' effective sets: every edge rests
\* on a shared name that is not an unresolved placeholder.
C4_NoPlaceholderEdge ==
    (pc = "bfs") =>
        \A x \in DOMAIN nodes : \A y \in AdjGet(adj, x) :
            \E s \in SharedNames(nodes[x], nodes[y]) :
                ~(Unresolved(s, nodes[x]) /\ Unresolved(s, nodes[y]))

\* C8: for distinct nodes A and B with a name both in effective_provides(A)
\* and in effective_uses(B), _has_communication_path answers true from A to B
\* and from B to A, whatever else the graph holds.
C8_ServiceSymmetric ==
    (Returned /\ qsrc \in DOMAIN nodes /\ qdst \in DOMAIN nodes /\ qsrc # qdst) =>
        LET s == nodes[qsrc]
            d == nodes[qdst]
        IN  ((EffectiveProvides(s) \cap EffectiveUses(d) # {})
             \/ (EffectiveProvides(d) \cap EffectiveUses(s) # {}))
            => result = TRUE

\* C8 witness: the call from the server to its client returned true, the
\* server neither using a service nor publishing anything
C8_ServerReachesClient ==
    /\ Returned
    /\ qsrc \in DOMAIN nodes /\ qdst \in DOMAIN nodes /\ qsrc # qdst
    /\ EffectiveProvides(nodes[qsrc]) \cap EffectiveUses(nodes[qdst]) # {}
    /\ EffectiveUses(nodes[qsrc]) = {}
    /\ EffectivePublishes(nodes[qsrc]) = {}
    /\ result = TRUE

\* the declared names of a set of (name, type) pairs
DeclaredNames(pairs) == {d[1] : d \in pairs}

NoServiceLink(x, y) ==
    /\ EffectiveUses(x) \cap EffectiveProvides(y) = {}
    /\ EffectiveUses(y) \cap EffectiveProvides(x) = {}

\* the node's first remap whose frm is the name is name -> to
FirstRemapIs(node, name, to) ==
    \E i \in 1..Len(node.remaps) :
        /\ node.remaps[i] = Remap(name, to)
        /\ \A j \in 1..(i - 1) : node.remaps[j].frm # name

\* the second half of C10: the call from p2 to a node whose only effective
\* subscription is /scan, no service linking the two and p2 having no edge to
\* a third node, returns false
C10_Unreachable(p2, c) ==
    (/\ EffectiveSubscribes(nodes[c]) = {Scan}
     /\ NoServiceLink(nodes[p2], nodes[c])
     /\ AdjGet(BuildAdjacency(nodes), p2) \subseteq {c})
    => result = FALSE

\* C10 as stated: a node of a type publishing /scan whose remaps contain
\* /scan -> /scan/raw has effective_publishes = {/scan/raw}, and a node
\* subscribing only to /scan is unreachable from it.
C10_RemapsContain ==
    (Returned /\ qsrc \in DOMAIN nodes /\ qdst \in DOMAIN nodes /\ qsrc # qdst
     /\ DeclaredNames(nodes[qsrc].node_type.publishes) = {Scan}
     /\ \E i \in 1..Len(nodes[qsrc].remaps) : nodes[qsrc].remaps[i] = Remap(Scan, ScanRaw))
    => /\ EffectivePublishes(nodes[qsrc]) = {ScanRaw}
       /\ C10_Unreachable(qsrc, qdst)

\* C10 amended: the same for a node whose first remap of /scan is
\* /scan -> /scan/raw.
C10_FirstRemap ==
    (Returned /\ qsrc \in DOMAIN nodes /\ qdst \in DOMAIN nodes /\ qsrc # qdst
     /\ DeclaredNames(nodes[qsrc].node_type.publishes) = {Scan}
     /\ FirstRemapIs(nodes[qsrc], Scan, ScanRaw))
    => /\ EffectivePublishes(nodes[qsrc]) = {ScanRaw}
       /\ C10_Unreachable(qsrc, qdst)

\* C10 witness: the call from the remapped producer to a /scan subscriber
\* returned false
C10_RemappedProducerMissesConsumer ==
    /\ Returned
    /\ qsrc \in DOMAIN nodes /\ qdst \in DOMAIN nodes /\ qsrc # qdst
    /\ DeclaredNames(nodes[qsrc].node_type.publishes) = {Scan}
    /\ FirstRemapIs(nodes[qsrc], Scan, ScanRaw)
    /\ EffectivePublishes(nodes[qsrc]) = {ScanRaw}
    /\ EffectiveSubscribes(nodes[qdst]) = {Scan}
    /\ result = FALSE

\* C17: the keys of the relation _build_adjacency returns are the names of
\* graph.nodes, and b is in adj[a] iff a # b and effective_publishes(a) meets
\* effective_subscribes(b), or effective_uses(a) meets effective_provides(b),
\* or effective_uses(b) meets effective_provides(a); there is no self-loop and
\* no neighbour outside graph.nodes.
C17_AdjacencyExact ==
    (pc = "bfs") =>
        /\ DOMAIN adj = DOMAIN nodes
        /\ \A a \in DOMAIN nodes :
              adj[a] =
                  {b \in DOMAIN nodes :
                      /\ a # b
                      /\ \/ EffectivePublishes(nodes[a]) \cap EffectiveSubscribes(nodes[b]) # {}
                         \/ EffectiveUses(nodes[a]) \cap EffectiveProvides(nodes[b]) # {}
                         \/ EffectiveUses(nodes[b]) \cap EffectiveProvides(nodes[a]) # {}}

\* C17 witness: the relation of a graph of three nodes holds an edge from a
\* publisher to a subscriber of the same name with no reverse edge, and a
\* third node without any neighbour
C17_OneWayTopicEdge ==
    /\ pc = "bfs"
    /\ Cardinality(DOMAIN nodes) = 3
    /\ \E a, b, c \in DOMAIN nodes :
          /\ adj[a] = {b} /\ adj[b] = {} /\ adj[c] = {}
          /\ b # c
          /\ EffectivePublishes(nodes[a]) \cap EffectiveSubscribes(nodes[b]) # {}

(***************************************************************************)
(* The search run to its end: the while loop of _has_communication_path    *)
(* is the only code running during a call, so an iteration that can be     *)
(* taken is taken                                                          *)
(***************************************************************************)
\* the node instances of the searched graphs: topic edges in one direction,
\* service edges in both
SearchPool ==
    { Template(Producer, NoAssigns, <<>>),
      Template(Consumer, NoAssigns, <<>>),
      Template(Relay, NoAssigns, <<Remap(ScanRaw, Scan)>>),
      Template(Server, NoAssigns, <<>>),
      Template(Client, NoAssigns, <<>>) }

InitSearch ==
    /\ text = <<>>
    /\ pos = 1
    /\ pc = "loaded"
    /\ \E S \in SUBSET NodeNames : \E f \in [S -> SearchPool] :
         /\ nodes = [n \in S |-> MkNode(n, f[n])]
         /\ node_types = TypesOf(nodes)
    /\ topics = <<>>
    /\ services = <<>>
    /\ qos_policies = <<>>
    /\ type_aliases = <<>>
    /\ message_aliases = <<>>
    /\ IdleQuery

SpecSearch == InitSearch /\ [][Next]_vars /\ WF_vars(BfsStep) /\ WF_vars(BfsExit)

\* the names in q are pairwise different and all in visited, and every name
\* of visited was appended to q once: the appends, which are the popleft
\* calls and the names still in q, are as many as the names of visited
EnqueuedOnce ==
    /\ \A i, j \in 1..Len(queue) : queue[i] = queue[j] => i = j
    /\ \A i \in 1..Len(queue) : queue[i] \in visited
    /\ dequeues + Len(queue) = Cardinality(visited)

AskNext ==
    /\ pc = "loaded"
    /\ \/ /\ Len(answers) = 0
          /\ \E a, b \in QueryNames : a # b /\ Query(a, b)
       \/ /\ Len(answers) = 1
          /\ \E c \in QueryNames \ {answers[1].src, answers[1].dst} :
               Query(answers[1].dst, c)
       \/ /\ Len(answers) = 2
          /\ Query(answers[1].src, answers[2].dst)

NextSeries ==
    \/ AskNext
    \/ BfsStep
    \/ BfsExit
    \/ ReturnAnswer

SpecSeries == InitSearch /\ [][NextSeries]_vars

\* C22: for pairwise distinct names a, b, c, when the calls for (a, b) and
\* (b, c) returned true, the call for (a, c) returns true.
C22_Transitive ==
    \A i, j, k \in 1..Len(answers) :
        ( /\ answers[i].dst = answers[j].src
          /\ answers[k].src = answers[i].src
          /\ answers[k].dst = answers[j].dst
          /\ answers[i].src # answers[i].dst
          /\ answers[j].src # answers[j].dst
          /\ answers[k].src # answers[k].dst
          /\ answers[i].result = TRUE
          /\ answers[j].result = TRUE )
        => answers[k].result = TRUE

\* C22 witness: the three calls returned true on a graph where c is not a
\* neighbour of a, so the third search went through b
C22_TwoHops ==
    /\ Len(answers) = 3
    /\ \A i \in 1..3 : answers[i].result = TRUE
    /\ answers[3].dst \notin BuildAdjacency(nodes)[answers[1].src]

(***************************************************************************)
(* The resolver on one node instance                                       *)
(***************************************************************************)
CallEffectivePublishesInPlace ==
    /\ pc = "loaded"
    /\ \E n \in DOMAIN nodes :
         /\ eff' = [fn |-> "publishes", node |-> n, names |-> EffectivePublishes(nodes[n])]
         /\ nodes' = [nodes EXCEPT ![n].remaps = <<>>,
                                   ![n].node_type.publishes =
                                        {<<Effective(d[1], nodes[n]), d[2]>> : d \in nodes[n].node_type.publishes}]
    /\ UNCHANGED <<text, pos, pc, node_types, topics, services,
                   qos_policies, type_aliases, message_aliases, queryVars, first, questions>>

\* a caller asks for one effective set of one node of the graph
CallEffectivePublishes ==
    /\ pc = "loaded"
    /\ \E n \in DOMAIN nodes :
         eff' = [fn |-> "publishes", node |-> n, names |-> EffectivePublishes(nodes[n])]
    /\ UNCHANGED <<text, pos, pc, graphVars, queryVars, first, questions>>

CallEffectiveSubscribes ==
    /\ pc = "loaded"
    /\ \E n \in DOMAIN nodes :
         eff' = [fn |-> "subscribes", node |-> n, names |-> EffectiveSubscribes(nodes[n])]
    /\ UNCHANGED <<text, pos, pc, graphVars, queryVars, first, questions>>

CallEffectiveProvides ==
    /\ pc = "loaded"
    /\ \E n \in DOMAIN nodes :
         eff' = [fn |-> "provides", node |-> n, names |-> EffectiveProvides(nodes[n])]
    /\ UNCHANGED <<text, pos, pc, graphVars, queryVars, first, questions>>

CallEffectiveUses ==
    /\ pc = "loaded"
    /\ \E n \in DOMAIN nodes :
         eff' = [fn |-> "uses", node |-> n, names |-> EffectiveUses(nodes[n])]
    /\ UNCHANGED <<text, pos, pc, graphVars, queryVars, first, questions>>

RawNames == {Scan, RealService, Placeholder("svc_name")}

Decls(names) == {<<nm, SrvType>> : nm \in names}

ContentTriples == {{}, {<<"<content>", "svc_name", SrvType>>}}

\* node types declaring any set of RawNames in one direction, with or without
\* a consumes service content(svc_name) declaration
TypePool ==
    UNION {
        { MkType("T", Decls(S), {}, {}, {}, c),
          MkType("T", {}, Decls(S), {}, {}, c),
          MkType("T", {}, {}, Decls(S), {}, c),
          MkType("T", {}, {}, {}, Decls(S), c) } : <<S, c>> \in (SUBSET RawNames) \X ContentTriples }

\* the values of param svc_name, as written in the instance body or set
\* through ParameterAssign
ValuePool ==
    { Quoted(RealService), SingleQuoted(RealService), RealService,
      <<SP>> \o Quoted(RealService) \o <<SP>>, <<DQ>> \o RealService,
      Quoted(Placeholder("svc_name")) }

AssignPool == {NoAssigns} \cup {Assign("svc_name", v) : v \in ValuePool}

RemapPool ==
    { Remap(Scan, Other), Remap(Scan, ScanRaw), Remap(RealService, Scan),
      Remap(RealService, Other), Remap(Placeholder("svc_name"), Other),
      Remap(RealService, Placeholder("svc_name")) }

\* the remap lists of at most MaxRemaps rules
RemapLists == UNION {[1..k -> RemapPool] : k \in 0..MaxRemaps}

\* a graph of one instance n, of any type, assignment and remap list
InitResolver ==
    /\ text = <<>>
    /\ pos = 1
    /\ pc = "loaded"
    /\ \E t \in TypePool, a \in AssignPool, r \in RemapLists :
         /\ nodes = [k \in {"n"} |-> MkNode(k, Template(t, a, r))]
         /\ node_types = TypesOf(nodes)
    /\ topics = <<>>
    /\ services = <<>>
    /\ qos_policies = <<>>
    /\ type_aliases = <<>>
    /\ message_aliases = <<>>
    /\ IdleQuery

NextResolver ==
    \/ CallEffectivePublishes
    \/ CallEffectiveSubscribes
    \/ CallEffectiveProvides
    \/ CallEffectiveUses

SpecResolver == InitResolver /\ [][NextResolver]_vars

(***************************************************************************)
(* Properties of the resolver, checked under SpecResolver                  *)
(***************************************************************************)
Called(fn) == eff.fn = fn

ConsumesSvcName(node) ==
    \E c \in node.node_type.consumes_content_services : c[2] = "svc_name"

AssignsRealService(node) ==
    /\ "svc_name" \in DOMAIN node.param_assigns
    /\ node.param_assigns["svc_name"].value = Quoted(RealService)

\* what the remap list makes of a name: the to of the first rule whose frm is
\* the name, the name itself when there is none
Renamed(node, name) ==
    IF \E i \in 1..Len(node.remaps) : node.remaps[i].frm = name
    THEN LET i == CHOOSE k \in 1..Len(node.remaps) :
                    /\ node.remaps[k].frm = name
                    /\ \A j \in 1..(k - 1) : node.remaps[j].frm # name
         IN  node.remaps[i].to
    ELSE name

\* C2 as stated: for a type with consumes service content(svc_name), a node
\* assigning svc_name = "/real_service" has /real_service and not
\* content(svc_name) in _effective_uses; a node not assigning svc_name has the
\* placeholder content(svc_name) in it.
C2_ContentResolution ==
    (Called("uses") /\ ConsumesSvcName(nodes[eff.node])) =>
        LET node == nodes[eff.node] IN
        /\ AssignsRealService(node) =>
              /\ RealService \in eff.names
              /\ Placeholder("svc_name") \notin eff.names
        /\ "svc_name" \notin DOMAIN node.param_assigns =>
              Placeholder("svc_name") \in eff.names

\* C2 amended: with the assignment, _effective_uses holds what the node's
\* remaps make of /real_service, and holds content(svc_name) only when a remap
\* rule's to is content(svc_name); without it, it holds the placeholder.
C2_ContentResolutionRemapped ==
    (Called("uses") /\ ConsumesSvcName(nodes[eff.node])) =>
        LET node == nodes[eff.node] IN
        /\ AssignsRealService(node) =>
              /\ Renamed(node, RealService) \in eff.names
              /\ (Placeholder("svc_name") \in eff.names =>
                    \E i \in 1..Len(node.remaps) :
                        node.remaps[i].to = Placeholder("svc_name"))
        /\ "svc_name" \notin DOMAIN node.param_assigns =>
              Placeholder("svc_name") \in eff.names

\* C2 witness: _effective_uses returned /real_service, and no placeholder,
\* for a node that assigns svc_name = "/real_service"
C2_Resolved ==
    /\ Called("uses")
    /\ ConsumesSvcName(nodes[eff.node])
    /\ AssignsRealService(nodes[eff.node])
    /\ RealService \in eff.names
    /\ Placeholder("svc_name") \notin eff.names

\* the declared names of a node's type in the direction of an effective_* call
DeclaredIn(fn, node) ==
    CASE fn = "publishes" -> DeclaredNames(node.node_type.publishes)
      [] fn = "subscribes" -> DeclaredNames(node.node_type.subscribes)
      [] fn = "provides" -> DeclaredNames(node.node_type.provides)
      [] fn = "uses" -> DeclaredNames(node.node_type.uses)
      [] OTHER -> {}

EffectiveIn(fn, node) ==
    CASE fn = "publishes" -> EffectivePublishes(node)
      [] fn = "subscribes" -> EffectiveSubscribes(node)
      [] fn = "provides" -> EffectiveProvides(node)
      [] fn = "uses" -> EffectiveUses(node)
      [] OTHER -> {}

\* the node without its remap rules whose frm is the name
RECURSIVE DropRemapsFrom(_, _)
DropRemapsFrom(remaps, name) ==
    IF remaps = <<>> THEN <<>>
    ELSE IF Head(remaps).frm = name THEN DropRemapsFrom(Tail(remaps), name)
    ELSE <<Head(remaps)>> \o DropRemapsFrom(Tail(remaps), name)

WithoutRemapsFrom(node, name) == [node EXCEPT !.remaps = DropRemapsFrom(node.remaps, name)]

\* an endpoint declared as content(svc_name) in the direction of the call
\* (for uses, also by consumes service content(svc_name)), svc_name assigned
\* on the node
ContentCase(fn, node) ==
    /\ \/ Placeholder("svc_name") \in DeclaredIn(fn, node)
       \/ fn = "uses" /\ ConsumesSvcName(node)
    /\ "svc_name" \in DOMAIN node.param_assigns

Substituted(node) == StripQuotes(node.param_assigns["svc_name"].value)

\* C3: in the four effective_* functions content resolution comes before the
\* remaps: for an endpoint declared content(<param>) with <param> assigned, the
\* result holds what the remaps make of the substituted name, and the remap
\* rules whose frm is the placeholder change nothing in the result (the
\* substituted name being a concrete name, not the placeholder text itself).
C3_ResolveThenRemap ==
    (eff.fn # "" /\ ContentCase(eff.fn, nodes[eff.node])) =>
        LET node == nodes[eff.node] IN
        /\ Renamed(node, Substituted(node)) \in eff.names
        /\ Substituted(node) # Placeholder("svc_name") =>
              eff.names = EffectiveIn(eff.fn, WithoutRemapsFrom(node, Placeholder("svc_name")))

\* C3 witness: a call returned the substituted name although the first remap
\* rule of the node has the placeholder as frm
C3_PlaceholderRemapIgnored ==
    /\ eff.fn = "publishes"
    /\ ContentCase(eff.fn, nodes[eff.node])
    /\ Len(nodes[eff.node].remaps) >= 1
    /\ nodes[eff.node].remaps[1].frm = Placeholder("svc_name")
    /\ Substituted(nodes[eff.node]) = RealService
    /\ RealService \in eff.names

\* C18: _apply_remaps applies at most one remap rule to a name: the effective
\* set holds, for each declared name, the to of the first rule in declaration
\* order whose frm equals the (content-resolved) name, not remapped again, and
\* the name itself when no rule's frm equals it; one declared name gives one
\* effective name.
C18_AtMostOneRemap ==
    (eff.fn # "") =>
        LET node == nodes[eff.node]
            decl == DeclaredIn(eff.fn, node)
        IN  /\ \A d \in decl : Renamed(node, ResolveContentName(d, node)) \in eff.names
            /\ (Cardinality(decl) = 1 /\ ~(eff.fn = "uses" /\ ConsumesSvcName(node))) =>
                  Cardinality(eff.names) = 1

\* C18 witness: with the rules /real_service -> /scan and /scan -> /other, in
\* this order, the declared name /real_service gave /scan alone
C18_NotChained ==
    /\ eff.fn = "provides"
    /\ DeclaredIn(eff.fn, nodes[eff.node]) = {RealService}
    /\ nodes[eff.node].remaps = <<Remap(RealService, Scan), Remap(Scan, Other)>>
    /\ eff.names = {Scan}

(***************************************************************************)
(* The loader.  The text is a sequence of lexical items [k, a, b]:         *)
(*   nodetype a       node type <a> {                                      *)
(*   close            }                                                    *)
(*   where a          where { <a> }                                        *)
(*   pub a b          publishes to <a> : <b>;        (sub, prov, uses)     *)
(*   consumes a b     consumes service content(<a>) : <b>;                 *)
(*   attach a b       @<a>{<b>}                                            *)
(*   system           system {                                             *)
(*   instance a b     node instance <a> : <b> {                            *)
(*   assign a b       param <a> = <b>;               (ctx: context)        *)
(*   remap a b        remap <a> to <b>;                                    *)
(***************************************************************************)
Item(k, a, b) == [k |-> k, a |-> a, b |-> b]

\* the items whose text holds a closing brace
HasCloseBrace(it) == it.k \in {"close", "attach", "where"}

\* \{(?P<body>.*?)\}: the non-greedy body ends at the first closing brace
\* after the header at i; 0 when there is none
FirstCloseAfter(seq, i) ==
    LET js == {j \in (i + 1)..Len(seq) : HasCloseBrace(seq[j])} IN
    IF js = {} THEN 0 ELSE CHOOSE j \in js : \A k \in js : j <= k

\* the first header of the kind at or after from that starts a match; 0 when
\* there is none
FirstHeader(seq, from, kind) ==
    LET is == {i \in from..Len(seq) : seq[i].k = kind /\ FirstCloseAfter(seq, i) # 0} IN
    IF is = {} THEN 0 ELSE CHOOSE i \in is : \A k \in is : i <= k

\* the complete items of a block body: what lies before the first closing
\* brace.  When that brace belongs to an attach or where item, the part of the
\* item before the brace is in the body too, and matches no statement pattern.
BodyOf(seq, i) == SubSeq(seq, i + 1, FirstCloseAfter(seq, i) - 1)

\* (?P<name>\w+)
Word(a) == a[1]

\* m.group("type").strip() or None
TypeOrNone(t) == IF Strip(t) = <<>> THEN None ELSE Strip(t)

\* the (name, type) pairs of the statements of one kind in a body
DeclsOf(body, kind) ==
    {<<Strip(body[i].a), TypeOrNone(body[i].b)>> : i \in {j \in 1..Len(body) : body[j].k = kind}}

\* one for loop of _parse_node_types over the statements of a kind, from the
\* statement at i: if name not in g.topics: g.topics[name] = Topic(name, typ)
RECURSIVE Register(_, _, _, _)
Register(map, body, kind, i) ==
    IF i > Len(body) THEN map
    ELSE IF body[i].k = kind /\ Strip(body[i].a) \notin DOMAIN map
         THEN LET nm == Strip(body[i].a) IN
              Register(
                  [x \in DOMAIN map \cup {nm} |->
                      IF x = nm THEN [name |-> nm, type |-> TypeOrNone(body[i].b)] ELSE map[x]],
                  body, kind, i + 1)
         ELSE Register(map, body, kind, i + 1)

\* ATTACHMENT_RE matches of a body: key -> value, the last statement of a key
\* winning
AttachmentsOf(body, qos) ==
    LET is == {i \in 1..Len(body) : body[i].k = "attach" /\ (Word(body[i].a) = "qos") = qos}
        keys == {Word(body[i].a) : i \in is}
    IN  [key \in keys |->
            Strip(body[CHOOSE i \in is : /\ Word(body[i].a) = key
                                          /\ \A j \in is : Word(body[j].a) = key => j <= i].b)]

\* the NodeType built from one match of NODE_TYPE_BLOCK_RE
ParseTypeBody(name, body, where_block) ==
    [name |-> name,
     publishes |-> DeclsOf(body, "pub"),
     subscribes |-> DeclsOf(body, "sub"),
     provides |-> DeclsOf(body, "prov"),
     uses |-> DeclsOf(body, "uses"),
     consumes_content_services |->
        {<<"<content>", Word(body[i].a), TypeOrNone(body[i].b)>> :
            i \in {j \in 1..Len(body) : body[j].k = "consumes"}},
     qos_attachments |->
        LET q == AttachmentsOf(body, TRUE) IN {q[k] : k \in DOMAIN q},
     other_attachments |-> AttachmentsOf(body, FALSE),
     where_block |-> where_block]

\* the optional where { ... } group that may follow the closing brace at j
HasWhereAfter(seq, j) == j < Len(seq) /\ seq[j + 1].k = "where"

\* one iteration of the for loop of _parse_node_types: the next match of
\* NODE_TYPE_BLOCK_RE
ParseNodeTypeBlock ==
    /\ pc = "types"
    /\ FirstHeader(text, pos, "nodetype") # 0
    /\ LET i == FirstHeader(text, pos, "nodetype")
           j == FirstCloseAfter(text, i)
           body == BodyOf(text, i)
           name == Word(text[i].a)
           wh == IF HasWhereAfter(text, j) THEN Strip(text[j + 1].a) ELSE None
           nt == ParseTypeBody(name, body, wh)
       IN  /\ topics' = Register(Register(topics, body, "pub", 1), body, "sub", 1)
           /\ services' = Register(Register(services, body, "prov", 1), body, "uses", 1)
           /\ node_types' = [x \in DOMAIN node_types \cup {name} |->
                                IF x = name THEN nt ELSE node_types[x]]
           /\ pos' = IF HasWhereAfter(text, j) THEN j + 2 ELSE j + 1
    /\ UNCHANGED <<text, pc, nodes, qos_policies, type_aliases, message_aliases,
                   queryVars, eff, first, questions>>

\* finditer has no further match: _parse_node_types returns
EndNodeTypes ==
    /\ pc = "types"
    /\ FirstHeader(text, pos, "nodetype") = 0
    /\ pc' = "system"
    /\ UNCHANGED <<text, pos, graphVars, queryVars, eff, first, questions>>

\* the assignments of a kind in an instance body: name -> [name, value], the
\* last statement of a name winning
AssignsOf(body, kind) ==
    LET is == {i \in 1..Len(body) : body[i].k = kind}
        keys == {Word(body[i].a) : i \in is}
    IN  [key \in keys |->
            [name |-> key,
             value |-> Strip(body[CHOOSE i \in is : /\ Word(body[i].a) = key
                                                  /\ \A j \in is : Word(body[j].a) = key => j <= i].b)]]

\* the remap rules of an instance body, in declaration order
RECURSIVE RemapsOf(_)
RemapsOf(body) ==
    IF body = <<>> THEN <<>>
    ELSE IF Head(body).k = "remap"
         THEN <<Remap(Strip(Head(body).a), Strip(Head(body).b))>> \o RemapsOf(Tail(body))
         ELSE RemapsOf(Tail(body))

\* the for loop of _parse_system_instances over the matches of
\* NODE_INSTANCE_BLOCK_RE in the system body, from position from
RECURSIVE ParseInstances(_, _, _, _)
ParseInstances(sys_body, from, types, g_nodes) ==
    LET i == FirstHeader(sys_body, from, "instance") IN
    IF i = 0 THEN g_nodes
    ELSE LET j == FirstCloseAfter(sys_body, i)
             body == BodyOf(sys_body, i)
             inst_name == Word(sys_body[i].a)
             type_name == Word(sys_body[i].b)
         IN  IF type_name \notin DOMAIN types
             THEN ParseInstances(sys_body, j + 1, types, g_nodes)
             ELSE LET node == [name |-> inst_name,
                               node_type |-> types[type_name],
                               param_assigns |-> AssignsOf(body, "assign"),
                               context_assigns |-> AssignsOf(body, "ctx"),
                               remaps |-> RemapsOf(body)]
                  IN  ParseInstances(sys_body, j + 1, types,
                          [x \in DOMAIN g_nodes \cup {inst_name} |->
                              IF x = inst_name THEN node ELSE g_nodes[x]])

SystemBodyOrWholeText(seq) ==
    LET s == FirstHeader(seq, 1, "system") IN
    IF s = 0 THEN seq ELSE BodyOf(seq, s)

\* SYSTEM_BLOCK_RE.search(text): the first system header that starts a match
SystemBody(seq) ==
    LET s == FirstHeader(seq, 1, "system") IN
    IF s = 0 THEN <<>> ELSE BodyOf(seq, s)

\* _parse_system_instances
ParseSystemInstances ==
    /\ pc = "system"
    /\ nodes' = ParseInstances(SystemBody(text), 1, node_types, nodes)
    /\ pc' = "loaded"
    /\ UNCHANGED <<text, pos, node_types, topics, services,
                   qos_policies, type_aliases, message_aliases,
                   queryVars, eff, first, questions>>

(***************************************************************************)
(* Policies and aliases.  Further lexical items:                           *)
(*   policy a b       policy instance <a> : <b> {                          *)
(*   setting a b      setting <a> = <b>;                                   *)
(*   typealias a b    type alias <a> : <b>;                                *)
(*   msgalias a b     message alias <a> : <b> {                            *)
(*   field a b        field <a> : <b>;                                     *)
(***************************************************************************)
\* the settings of a policy body: key -> value, the last statement of a key
\* winning
SettingsOf(body) ==
    LET is == {i \in 1..Len(body) : body[i].k = "setting"}
        keys == {Word(body[i].a) : i \in is}
    IN  [key \in keys |->
            Strip(body[CHOOSE i \in is : /\ Word(body[i].a) = key
                                          /\ \A j \in is : Word(body[j].a) = key => j <= i].b)]

\* the for loop of _parse_qos_policies over the matches of
\* QOS_POLICY_BLOCK_RE, from position from
RECURSIVE ParsePolicies(_, _, _)
ParsePolicies(seq, from, pols) ==
    LET i == FirstHeader(seq, from, "policy") IN
    IF i = 0 THEN pols
    ELSE LET name == Word(seq[i].a)
             pol == [name |-> name, kind |-> Word(seq[i].b), settings |-> SettingsOf(BodyOf(seq, i))]
         IN  ParsePolicies(seq, FirstCloseAfter(seq, i) + 1,
                 [x \in DOMAIN pols \cup {name} |-> IF x = name THEN pol ELSE pols[x]])

\* _parse_qos_policies
ParseQosPolicies ==
    /\ pc = "policies"
    /\ qos_policies' = ParsePolicies(text, 1, qos_policies)
    /\ pc' = "type_aliases"
    /\ UNCHANGED <<text, pos, node_types, nodes, topics, services,
                   type_aliases, message_aliases, queryVars, eff, first, questions>>

\* the for loop of _parse_type_aliases over the matches of TYPE_ALIAS_RE
RECURSIVE TypeAliasesOf(_, _)
TypeAliasesOf(seq, als) ==
    IF seq = <<>> THEN als
    ELSE IF Head(seq).k = "typealias"
         THEN LET name == Word(Head(seq).a)
                  al == [name |-> name, definition |-> Strip(Head(seq).b)]
              IN  TypeAliasesOf(Tail(seq),
                      [x \in DOMAIN als \cup {name} |-> IF x = name THEN al ELSE als[x]])
         ELSE TypeAliasesOf(Tail(seq), als)

\* _parse_type_aliases
ParseTypeAliases ==
    /\ pc = "type_aliases"
    /\ type_aliases' = TypeAliasesOf(text, type_aliases)
    /\ pc' = "message_aliases"
    /\ UNCHANGED <<text, pos, node_types, nodes, topics, services,
                   qos_policies, message_aliases, queryVars, eff, first, questions>>

\* the fields of a message alias body, in declaration order
RECURSIVE FieldsOf(_)
FieldsOf(body) ==
    IF body = <<>> THEN <<>>
    ELSE IF Head(body).k = "field"
         THEN <<[name |-> Word(Head(body).a), type |-> Head(body).b]>> \o FieldsOf(Tail(body))
         ELSE FieldsOf(Tail(body))

\* the for loop of _parse_message_aliases over the matches of
\* MESSAGE_ALIAS_BLOCK_RE, from position from
RECURSIVE ParseAliasBlocks(_, _, _)
ParseAliasBlocks(seq, from, als) ==
    LET i == FirstHeader(seq, from, "msgalias") IN
    IF i = 0 THEN als
    ELSE LET name == Word(seq[i].a)
             ma == [name |-> name, base_type |-> seq[i].b, fields |-> FieldsOf(BodyOf(seq, i))]
         IN  ParseAliasBlocks(seq, FirstCloseAfter(seq, i) + 1,
                 [x \in DOMAIN als \cup {name} |-> IF x = name THEN ma ELSE als[x]])

\* _parse_message_aliases
ParseMessageAliases ==
    /\ pc = "message_aliases"
    /\ message_aliases' = ParseAliasBlocks(text, 1, message_aliases)
    /\ pc' = "types"
    /\ UNCHANGED <<text, pos, node_types, nodes, topics, services,
                   qos_policies, type_aliases, queryVars, eff, first, questions>>

\* the Graph a load_graph_from_rospec call returns
GraphOf ==
    [nodes |-> nodes, node_types |-> node_types, topics |-> topics, services |-> services,
     qos_policies |-> qos_policies, type_aliases |-> type_aliases,
     message_aliases |-> message_aliases]

LoadAgainKeepsPosition(t) ==
    /\ pc = "loaded"
    /\ first' = [loaded |-> TRUE, text |-> text, graph |-> GraphOf]
    /\ text' = t
    /\ pc' = "policies"
    /\ node_types' = <<>> /\ nodes' = <<>> /\ topics' = <<>> /\ services' = <<>>
    /\ qos_policies' = <<>> /\ type_aliases' = <<>> /\ message_aliases' = <<>>
    /\ UNCHANGED <<pos, queryVars, eff, questions>>

\* the caller keeps the Graph of a call and calls load_graph_from_rospec
\* again, on the text t: g = Graph(), and every finditer starts at the
\* beginning of the text
LoadAgain(t) ==
    /\ pc = "loaded"
    /\ first' = [loaded |-> TRUE, text |-> text, graph |-> GraphOf]
    /\ text' = t
    /\ pos' = 1
    /\ pc' = "policies"
    /\ node_types' = <<>> /\ nodes' = <<>> /\ topics' = <<>> /\ services' = <<>>
    /\ qos_policies' = <<>> /\ type_aliases' = <<>> /\ message_aliases' = <<>>
    /\ UNCHANGED <<queryVars, eff, questions>>

(***************************************************************************)
(* Specification texts                                                     *)
(***************************************************************************)
Blank == <<>>
CloseItem == Item("close", Blank, Blank)
SystemItem == Item("system", Blank, Blank)

\* node type <name> { <body> }
TypeDecl(name, body) == <<Item("nodetype", <<name>>, Blank)>> \o body \o <<CloseItem>>

\* node instance <name> : <type> { <body> }
InstanceDecl(name, type, body) == <<Item("instance", <<name>>, <<type>>)>> \o body \o <<CloseItem>>

\* system { <instances> }
SystemDecl(instances) == <<SystemItem>> \o instances \o <<CloseItem>>

StmtPool ==
    { Item("pub", Scan, ScanType),
      Item("sub", Scan, AltType),
      Item("prov", RealService, SrvType),
      Item("uses", RealService, AltType),
      Item("consumes", <<"svc_name">>, SrvType),
      Item("attach", <<"qos">>, <<"best_effort_qos">>) }

\* the bodies of two node types holding at most MaxStmts statements in all
BodyPairs ==
    UNION { [1..k1 -> StmtPool] \X [1..k2 -> StmtPool] :
                <<k1, k2>> \in {kk \in (0..MaxStmts) \X (0..MaxStmts) : kk[1] + kk[2] <= MaxStmts} }

\* the second node type: its name, and what follows its closing brace
SecondTypes ==
    { [name |-> "Producer", tail |-> <<>>],
      [name |-> "Consumer", tail |-> <<>>],
      [name |-> "Consumer", tail |-> <<Item("where", <<"rate", SP>>, Blank)>>] }

ScenarioSystem ==
    SystemDecl(InstanceDecl("p", "Producer", <<>>) \o InstanceDecl("c", "Consumer", <<>>))

MixedSystem ==
    SystemDecl(
        InstanceDecl("x", "Unknown", <<>>)
        \o InstanceDecl("p2", "Producer",
               << Item("assign", <<"svc_name">>, Quoted(RealService)),
                  Item("ctx", <<"is_simulation">>, <<"true">>),
                  Item("remap", Scan, ScanRaw) >>))

\* two instance statements of the same name
DuplicateSystem ==
    SystemDecl(
        InstanceDecl("p", "Producer", <<Item("remap", Scan, Other)>>)
        \o InstanceDecl("p", "Producer", <<Item("remap", Scan, ScanRaw)>>))

SystemPool == { <<>>, SystemDecl(<<>>), ScenarioSystem, MixedSystem, DuplicateSystem }

\* the scenario of the specification: Producer publishes /scan, Consumer
\* subscribes to /scan, instances p and c
ScenarioText ==
    TypeDecl("Producer", <<Item("pub", Scan, ScanType)>>)
    \o TypeDecl("Consumer", <<Item("sub", Scan, ScanType \o <<SP>>)>>)
    \o ScenarioSystem

Texts ==
    { TypeDecl("Producer", b[1]) \o TypeDecl(t.name, b[2]) \o t.tail \o sys :
        <<b, t, sys>> \in BodyPairs \X SecondTypes \X SystemPool }
    \cup {ScenarioText}

Empty == [x \in {} |-> x]

InitParse ==
    /\ text \in Texts
    /\ pos = 1
    /\ pc = "types"
    /\ node_types = Empty
    /\ nodes = Empty
    /\ topics = Empty
    /\ services = Empty
    /\ qos_policies = Empty
    /\ type_aliases = Empty
    /\ message_aliases = Empty
    /\ IdleQuery

\* the instance names written in a text
InstanceNames(seq) == {Word(seq[i].a) : i \in {j \in 1..Len(seq) : seq[j].k = "instance"}}

NextParse ==
    \/ ParseNodeTypeBlock
    \/ EndNodeTypes
    \/ ParseSystemInstances
    \/ \E src \in InstanceNames(text), dst \in InstanceNames(text) : Query(src, dst)
    \/ BfsStep
    \/ BfsExit
    \/ Return

SpecParse == InitParse /\ [][NextParse]_vars

(***************************************************************************)
(* Properties of the loader, checked under SpecParse                       *)
(***************************************************************************)
Loaded == pc = "loaded"

\* the positions of the statements of the kinds that declare the name
DeclPositions(seq, kinds, nm) ==
    {i \in 1..Len(seq) : seq[i].k \in kinds /\ Strip(seq[i].a) = nm}

\* the type written by the earliest of these statements
FirstDeclaredType(seq, kinds, nm) ==
    LET is == DeclPositions(seq, kinds, nm) IN
    TypeOrNone(seq[CHOOSE i \in is : \A j \in is : i <= j].b)

DeclaredTwice(seq, kinds, nm) ==
    \E i, j \in DeclPositions(seq, kinds, nm) : i < j /\ seq[i].b # seq[j].b

NoAttachment(seq) == \A i \in 1..Len(seq) : seq[i].k # "attach"

\* C5: when a text declares a topic name twice, first with type A and later
\* with type B, by any mix of publishes/subscribes statements in one or in
\* several node types, topics[T].type is A after parsing; the same for
\* services with provides/uses.  (Stated for the texts without an attachment
\* statement, whose node type bodies the loader reads to their end.)
C5_FirstWriterWins ==
    (Loaded /\ NoAttachment(text)) =>
        /\ \A nm \in {Scan} :
              DeclaredTwice(text, {"pub", "sub"}, nm) =>
                  /\ nm \in DOMAIN topics
                  /\ topics[nm].type = FirstDeclaredType(text, {"pub", "sub"}, nm)
        /\ \A nm \in {RealService} :
              DeclaredTwice(text, {"prov", "uses"}, nm) =>
                  /\ nm \in DOMAIN services
                  /\ services[nm].type = FirstDeclaredType(text, {"prov", "uses"}, nm)

\* the instance statements of a text: position of the header
InstancePositions(seq) == {i \in 1..Len(seq) : seq[i].k = "instance"}

\* the statements between an instance header and the next closing brace
InstanceBody(seq, i) ==
    LET js == {j \in (i + 1)..Len(seq) : seq[j].k = "close"} IN
    SubSeq(seq, i + 1, (CHOOSE j \in js : \A k \in js : j <= k) - 1)

\* C6: every node instance <name> : <type> { <body> } statement of the system
\* block whose type is a declared node type gives a Node <name> in graph.nodes,
\* wired to that NodeType and holding the param and context assignments and
\* the remap rules of the body.
C6_InstancesAdded ==
    Loaded =>
        \A i \in InstancePositions(text) :
            Word(text[i].b) \in DOMAIN node_types =>
                /\ Word(text[i].a) \in DOMAIN nodes
                /\ nodes[Word(text[i].a)].node_type = node_types[Word(text[i].b)]
                /\ nodes[Word(text[i].a)].remaps = RemapsOf(InstanceBody(text, i))
                /\ nodes[Word(text[i].a)].param_assigns = AssignsOf(InstanceBody(text, i), "assign")
                /\ nodes[Word(text[i].a)].context_assigns = AssignsOf(InstanceBody(text, i), "ctx")

\* C7: after parsing, every Node of graph.nodes has the NodeType stored in
\* graph.node_types under its type's name; an instance of an undeclared type is
\* not in graph.nodes, and dropping it does not keep the other instances of
\* the system block, those of declared types, out of graph.nodes.
C7_DropKeepsOthers ==
    Loaded =>
        /\ \A n \in DOMAIN nodes :
              /\ nodes[n].node_type.name \in DOMAIN node_types
              /\ nodes[n].node_type = node_types[nodes[n].node_type.name]
        /\ \A i \in InstancePositions(text) :
              Word(text[i].b) \notin DOMAIN node_types => Word(text[i].a) \notin DOMAIN nodes
        /\ (\E i \in InstancePositions(text) : Word(text[i].b) \notin DOMAIN node_types) =>
              \A k \in InstancePositions(text) :
                  Word(text[k].b) \in DOMAIN node_types => Word(text[k].a) \in DOMAIN nodes

\* C9: parsing the scenario text gives topics = {/scan: sensor/Scan}, nodes p
\* and c with effective_publishes(p) = {/scan} and effective_subscribes(c) =
\* {/scan}, and the calls answer true from p to c and false from c to p.
C9_Scenario ==
    (text = ScenarioText) =>
        /\ Loaded =>
              /\ DOMAIN topics = {Scan}
              /\ topics[Scan] = [name |-> Scan, type |-> ScanType]
              /\ DOMAIN nodes = {"p", "c"}
              /\ EffectivePublishes(nodes["p"]) = {Scan}
              /\ EffectiveSubscribes(nodes["c"]) = {Scan}
        /\ (Returned /\ qsrc = "p" /\ qdst = "c") => result = TRUE
        /\ (Returned /\ qsrc = "c" /\ qdst = "p") => result = FALSE

\* the node type statements of a text whose declaration is the last of its
\* name
KeptTypePositions(seq) ==
    {i \in 1..Len(seq) :
        /\ seq[i].k = "nodetype"
        /\ \A j \in (i + 1)..Len(seq) : seq[j].k = "nodetype" => Word(seq[j].a) # Word(seq[i].a)}

\* the statements written between a block header and the closing brace of
\* the block
WrittenBody(seq, i) == InstanceBody(seq, i)

\* C14: every @<key>{<value>} statement of a node type body is recorded on the
\* NodeType, in qos_attachments for the key qos and in other_attachments[key]
\* otherwise (the last statement of a key winning), and the other statements
\* of the body, before and after the attachment, are parsed.
C14_AttachmentsRecorded ==
    Loaded =>
        \A i \in KeptTypePositions(text) :
            LET w == WrittenBody(text, i)
                nt == node_types[Word(text[i].a)]
            IN  /\ \A j \in 1..Len(w) :
                      w[j].k = "attach" =>
                          IF Word(w[j].a) = "qos"
                          THEN Strip(w[j].b) \in nt.qos_attachments
                          ELSE /\ Word(w[j].a) \in DOMAIN nt.other_attachments
                               /\ nt.other_attachments[Word(w[j].a)]
                                     = AttachmentsOf(w, FALSE)[Word(w[j].a)]
                /\ nt.publishes = DeclsOf(w, "pub")
                /\ nt.subscribes = DeclsOf(w, "sub")
                /\ nt.provides = DeclsOf(w, "prov")
                /\ nt.uses = DeclsOf(w, "uses")

\* the instance statements of a declared type whose name is written again
\* later: position of the last statement of each such name
LastOfDuplicateInstances(seq, types) ==
    {j \in InstancePositions(seq) :
        /\ Word(seq[j].b) \in DOMAIN types
        /\ \E i \in InstancePositions(seq) : i < j /\ Word(seq[i].a) = Word(seq[j].a)
        /\ \A k \in InstancePositions(seq) : k > j => Word(seq[k].a) # Word(seq[j].a)}

\* C19: when a text declares two node types of one name, node_types[name]
\* holds the later declaration and nothing of the earlier one, every node of
\* that type is wired to the later declaration, and of two node instances of
\* one name the later one is kept.  (The node type part is stated for the
\* texts without an attachment statement.)
C19_LaterDeclarationKept ==
    Loaded =>
        /\ NoAttachment(text) =>
              \A i \in KeptTypePositions(text) :
                  LET w == WrittenBody(text, i)
                      nt == node_types[Word(text[i].a)]
                  IN  /\ nt.publishes = DeclsOf(w, "pub")
                      /\ nt.subscribes = DeclsOf(w, "sub")
                      /\ nt.provides = DeclsOf(w, "prov")
                      /\ nt.uses = DeclsOf(w, "uses")
                      /\ \A c \in nt.consumes_content_services :
                            \E k \in 1..Len(w) : w[k].k = "consumes" /\ Word(w[k].a) = c[2]
        /\ \A n \in DOMAIN nodes : nodes[n].node_type = node_types[nodes[n].node_type.name]
        /\ \A j \in LastOfDuplicateInstances(text, node_types) :
              /\ Word(text[j].a) \in DOMAIN nodes
              /\ nodes[Word(text[j].a)].remaps = RemapsOf(InstanceBody(text, j))
              /\ nodes[Word(text[j].a)].param_assigns = AssignsOf(InstanceBody(text, j), "assign")

\* the names the statements of the kinds declare anywhere in a text
NamesWritten(seq, kinds) == {Strip(seq[i].a) : i \in {j \in 1..Len(seq) : seq[j].k \in kinds}}

\* C20: after parsing, for every NodeType of node_types each name of its
\* publishes and subscribes sets is a key of topics and each name of its
\* provides and uses sets is a key of services; a consumes service
\* content(<param>) statement adds its triple to consumes_content_services
\* and registers no Topic and no Service.
C20_EndpointsRegistered ==
    Loaded =>
        /\ \A t \in DOMAIN node_types :
              /\ DeclaredNames(node_types[t].publishes \cup node_types[t].subscribes)
                    \subseteq DOMAIN topics
              /\ DeclaredNames(node_types[t].provides \cup node_types[t].uses)
                    \subseteq DOMAIN services
        /\ \A i \in KeptTypePositions(text) :
              LET w == WrittenBody(text, i) IN
              \A k \in 1..Len(w) :
                  w[k].k = "consumes" =>
                      <<"<content>", Word(w[k].a), TypeOrNone(w[k].b)>>
                          \in node_types[Word(text[i].a)].consumes_content_services
        /\ DOMAIN topics \subseteq NamesWritten(text, {"pub", "sub"})
        /\ DOMAIN services \subseteq NamesWritten(text, {"prov", "uses"})

(***************************************************************************)
(* Loading a text, then loading again                                      *)
(***************************************************************************)
\* policy instance <name> : <kind> { <body> }
PolicyDecl(name, kind, body) == <<Item("policy", <<name>>, <<kind>>)>> \o body \o <<CloseItem>>

\* message alias <name> : <base> { <body> }
MessageAliasDecl(name, base, body) == <<Item("msgalias", <<name>>, base)>> \o body \o <<CloseItem>>

\* a policy with a setting written twice, a type alias declared twice, a
\* message alias of two fields
Declarations ==
    PolicyDecl("best_effort_qos", "QoS",
        << Item("setting", <<"depth">>, <<"10">>),
           Item("setting", <<"depth">>, <<SP, "5">>) >>)
    \o << Item("typealias", <<"Meters">>, <<"float64">>),
          Item("typealias", <<"Meters">>, <<"float32", SP>>) >>
    \o MessageAliasDecl("Pose2D", <<"geometry_msgs/Pose">>,
        << Item("field", <<"x">>, <<"float64">>),
           Item("field", <<"y">>, <<"float64">>) >>)

\* the bodies of at most MaxStmts statements
Bodies == UNION {[1..k -> StmtPool] : k \in 0..MaxStmts}

\* the node type declared after Producer
FollowingTypes ==
    { TypeDecl("Producer", <<Item("sub", Scan, ScanType)>>),
      TypeDecl("Consumer", <<Item("sub", Scan, ScanType), Item("uses", RealService, SrvType)>>) }

\* node instance p : Producer { } written outside any system block
OrphanInstance == InstanceDecl("p", "Producer", <<>>)

LoadTexts ==
    { pre \o TypeDecl("Producer", b) \o t \o sys :
        <<pre, b, t, sys>> \in {<<>>, Declarations} \X Bodies \X FollowingTypes
                                \X {<<>>, OrphanInstance, MixedSystem} }

\* the text holds no system { header
NoSystem(seq) == \A i \in 1..Len(seq) : seq[i].k # "system"

\* the texts of the second call: the same text, or the text followed by a
\* system block when it has none
ReloadTexts(seq) ==
    {seq} \cup (IF NoSystem(seq) THEN {seq \o ScenarioSystem, seq \o SystemDecl(<<>>)} ELSE {})

InitLoad ==
    /\ text \in LoadTexts
    /\ pos = 1
    /\ pc = "policies"
    /\ node_types = Empty
    /\ nodes = Empty
    /\ topics = Empty
    /\ services = Empty
    /\ qos_policies = Empty
    /\ type_aliases = Empty
    /\ message_aliases = Empty
    /\ IdleQuery

NextLoad ==
    \/ ParseQosPolicies
    \/ ParseTypeAliases
    \/ ParseMessageAliases
    \/ ParseNodeTypeBlock
    \/ EndNodeTypes
    \/ ParseSystemInstances
    \/ ~first.loaded /\ \E t \in ReloadTexts(text) : LoadAgain(t)

SpecLoad == InitLoad /\ [][NextLoad]_vars

WithSystem(seq, t) ==
    /\ Len(t) > Len(seq)
    /\ SubSeq(t, 1, Len(seq)) = seq
    /\ t[Len(seq) + 1].k = "system"

\* C12: for a text without a system block parsing ends with an empty nodes
\* map, and node_types, topics, services, qos_policies and the aliases are
\* what they are for the same text followed by a system block.
C12_MissingSystem ==
    /\ (Loaded /\ NoSystem(text)) => DOMAIN nodes = {}
    /\ (Loaded /\ first.loaded /\ NoSystem(first.text) /\ WithSystem(first.text, text)) =>
          /\ DOMAIN first.graph.nodes = {}
          /\ first.graph.node_types = node_types
          /\ first.graph.topics = topics
          /\ first.graph.services = services
          /\ first.graph.qos_policies = qos_policies
          /\ first.graph.type_aliases = type_aliases
          /\ first.graph.message_aliases = message_aliases

\* C12 witness: a text without a system block, holding declarations, two node
\* types and an instance statement, was loaded with no node, and the text
\* followed by a system block has been loaded after it
C12_LoadedWithoutSystem ==
    /\ Loaded /\ first.loaded
    /\ NoSystem(first.text) /\ WithSystem(first.text, text)
    /\ InstancePositions(first.text) # {}
    /\ DOMAIN first.graph.nodes = {}
    /\ DOMAIN first.graph.qos_policies # {}
    /\ DOMAIN first.graph.node_types = {"Producer", "Consumer"}
    /\ DOMAIN first.graph.topics # {}

(***************************************************************************)
(* The resolver and the connectivity engine called in any order            *)
(***************************************************************************)
\* the node instances of the graphs that are queried in any order
CallPool ==
    { Template(Producer, NoAssigns, <<Remap(Scan, ScanRaw)>>),
      Template(Relay, NoAssigns, <<>>),
      Template(Server, NoAssigns, <<>>),
      Template(ContentClient, Assign("svc_name", Quoted(RealService)), <<>>) }

InitCalls ==
    /\ text = <<>>
    /\ pos = 1
    /\ pc = "loaded"
    /\ \E S \in SUBSET NodeNames : \E f \in [S -> CallPool] :
         /\ nodes = [n \in S |-> MkNode(n, f[n])]
         /\ node_types = TypesOf(nodes)
    /\ topics = <<>>
    /\ services = <<>>
    /\ qos_policies = <<>>
    /\ type_aliases = <<>>
    /\ message_aliases = <<>>
    /\ IdleQuery

NextCalls ==
    \/ CallEffectivePublishes
    \/ CallEffectiveSubscribes
    \/ CallEffectiveProvides
    \/ CallEffectiveUses
    \/ \E src \in QueryNames, dst \in QueryNames : Query(src, dst)
    \/ BfsStep
    \/ BfsExit
    \/ Return

SpecCalls == InitCalls /\ [][NextCalls]_vars

\* C13: no call of _effective_publishes, _effective_subscribes,
\* _effective_provides, _effective_uses, _build_adjacency or
\* _has_communication_path changes a map or an entity of the Graph, so that a
\* query returns, after any calls made before it, what the Graph it was built
\* with gives for its arguments.
C13_ReadOnly ==
    [][ /\ UNCHANGED graphVars
        /\ pc' = "done" =>
              (result' = TRUE <=>
                  (qsrc' # qdst' /\ PathExists(BuildAdjacency(nodes), qsrc', qdst'))) ]_vars

\* C13 witness: a query has answered true after a call of _effective_publishes
\* on a node with a remap
C13_QueriedAfterCalls ==
    /\ Returned
    /\ result = TRUE
    /\ eff.fn = "publishes"
    /\ nodes[eff.node].remaps # <<>>
    /\ eff.names = {ScanRaw}

(***************************************************************************)
(* generate_questions.  A Question is a record of its level, category,     *)
(* qtype, question and answer.  The question text is its template and the  *)
(* names written into it; an answer is the set of the items its text       *)
(* lists, a single item for the answers that are one word or one name.     *)
(* Names written into a text are sequences of atoms; a name the graph      *)
(* holds as a plain string s is written <<s>>.  The node types of the      *)
(* model carry no parameter definitions, context definitions or TF edges,  *)
(* so the loops over them add nothing.                                     *)
(***************************************************************************)
Question(level, category, qtype, template, args, answer) ==
    [level |-> level, category |-> category, qtype |-> qtype,
     question |-> [template |-> template, args |-> args], answer |-> answer]

Yes == {<<"Yes">>}
No == {<<"No">>}

\* _bool_yes_no
BoolYesNo(value) == IF value THEN Yes ELSE No

\* _open_empty and _open_unknown: the words None and Unknown
OpenEmpty == <<"None (text)">>
OpenUnknown == <<"Unknown">>

\* _comma_list: the sorted distinct non-empty items, None when there is none
CommaList(items) ==
    LET xs == {x \in items : x # <<>>} IN
    IF xs = {} THEN {OpenEmpty} ELSE xs

\* _opt_empty and _opt_unknown
OptEmpty(x) == IF x = None \/ Strip(x) = <<>> THEN {OpenEmpty} ELSE {Strip(x)}
OptUnknown(x) == IF x = None \/ Strip(x) = <<>> THEN {OpenUnknown} ELSE {Strip(x)}

\* str(v).strip() or <word>
StripOr(v, word) == IF Strip(v) = <<>> THEN {word} ELSE {Strip(v)}

\* the order in which a dict or a set is iterated
RECURSIVE SeqOfSet(_)
SeqOfSet(S) ==
    IF S = {} THEN <<>>
    ELSE LET x == CHOOSE y \in S : TRUE IN <<x>> \o SeqOfSet(S \ {x})

\* list(map.values())
ValuesOf(map) == LET o == SeqOfSet(DOMAIN map) IN [i \in 1..Len(o) |-> map[o[i]]]

RECURSIVE Concat(_)
Concat(ss) == IF ss = <<>> THEN <<>> ELSE Head(ss) \o Concat(Tail(ss))

\* the records a loop appends: those of f for each element, in order
Each(xs, f(_)) == Concat([i \in 1..Len(xs) |-> f(xs[i])])

\* _entity_kind
EntityKind(name, g) ==
    IF name \in DOMAIN g.topics THEN {<<"1">>}
    ELSE IF name \in DOMAIN g.services THEN {<<"2">>}
    ELSE {<<"3">>}

\* the two-letter suffix random.choice draws
Suffixes == {"zz"}

\* f"{original}_x{suffix}"
FakeCandidates(real_names) ==
    {real_names[i] \o <<"_x", sfx>> : i \in 1..Len(real_names), sfx \in Suffixes}

\* _generate_fake_entities: the sets the loop may end with.  Every attempt
\* draws a candidate and adds it when it is neither a real name nor drawn
\* before; the loop ends with count names or after count * 30 attempts, which
\* any smaller set can exhaust by drawing again a name that adds nothing.
\* The result is the set; the order sorted() gives it is not modelled.
FakeEntities(real_names, count) ==
    IF real_names = <<>> \/ count <= 0 THEN {{}}
    ELSE LET base == {real_names[i] : i \in 1..Len(real_names)}
             cand == FakeCandidates(real_names)
         IN  {f \in SUBSET (cand \ base) :
                 /\ Cardinality(f) <= count
                 /\ f = {} => cand \cap base # {}}

\* Level 0: the records of the fake names, then two records for every entry
\* of entity_names
EntityQuestions(g, entity_names, fakes) ==
    Each(SeqOfSet(fakes), LAMBDA e :
        <<Question("ENTITY", "ENTITY", "BOOL", "Is there a ROS2 entity called", <<e>>, No)>>)
    \o Each(entity_names, LAMBDA e :
        << Question("ENTITY", "ENTITY", "BOOL", "Is there a ROS2 entity called", <<e>>, Yes),
           Question("ENTITY", "ENTITY", "MCQ", "What kind of ROS2 entity is", <<e>>,
                    EntityKind(e, g)) >>)

\* Level 1: the records of one node type
NodeTypeQuestions(nt) ==
    LET n == <<nt.name>>
        R(category, qtype, template, args, answer) ==
            Question("RELATION", category, qtype, template, args, answer)
    IN
    << R("NODE_TYPE", "BOOL", "Is there a ROSpec node type called", <<n>>, Yes),
       R("PARAMETER", "OPEN", "Which parameters are defined in node type", <<n>>, CommaList({})),
       R("CONTEXT", "OPEN", "Which contexts are defined in node type", <<n>>, CommaList({})),
       R("ATTACHMENT", "OPEN", "Which QoS policy tags are attached in node type", <<n>>,
         CommaList(nt.qos_attachments)),
       R("ATTACHMENT", "OPEN", "Which non-QoS attachments are declared in node type", <<n>>,
         CommaList({<<k, "=">> \o nt.other_attachments[k] : k \in DOMAIN nt.other_attachments})) >>
    \o Each(SeqOfSet(DOMAIN nt.other_attachments), LAMBDA k :
        <<R("ATTACHMENT", "OPEN", "What is the value of attachment in node type", <<<<k>>, n>>,
            StripOr(nt.other_attachments[k], OpenEmpty))>>)
    \o << R("PUBLISH", "OPEN", "Which topics can node type publish to (as declared)", <<n>>,
            CommaList(DeclaredNames(nt.publishes))),
          R("SUBSCRIBE", "OPEN", "Which topics can node type subscribe to (as declared)", <<n>>,
            CommaList(DeclaredNames(nt.subscribes))),
          R("SERVICE", "OPEN", "Which services can node type provide (as declared)", <<n>>,
            CommaList(DeclaredNames(nt.provides))),
          R("CLIENT", "OPEN", "Which services can node type use (as declared)", <<n>>,
            CommaList(DeclaredNames(nt.uses))),
          R("WHERE", "BOOL", "Does node type declare a where-clause", <<n>>,
            BoolYesNo(nt.where_block # None /\ nt.where_block # <<>>)),
          R("WHERE", "OPEN", "What is the where-clause of node type", <<n>>,
            OptEmpty(nt.where_block)) >>
    \o Each(SeqOfSet(nt.consumes_content_services), LAMBDA c :
        << R("CONTENT_SERVICE", "OPEN",
             "Which parameter provides the consumed service name via content(...) in node type",
             <<n>>, {<<c[2]>>}),
           R("CONTENT_SERVICE", "OPEN",
             "What is the declared type of the consumed content-based service in node type",
             <<n>>, OptUnknown(c[3])) >>)
    \o << R("TF", "OPEN", "What TF relations are declared in node type", <<n>>, CommaList({})) >>

\* the records of the assignments of one kind of a node instance
AssignQuestions(name, assigns, category, which, what) ==
    << Question("RELATION", category, "OPEN", which, <<name>>,
                CommaList({<<k>> : k \in DOMAIN assigns})) >>
    \o Each(SeqOfSet(DOMAIN assigns), LAMBDA k :
        <<Question("RELATION", category, "OPEN", what, <<<<k>>, name>>,
                   {StripQuotes(assigns[k].value)})>>)

\* Level 1: the records of one node instance
NodeInstanceQuestions(n) ==
    LET R(category, qtype, template, args, answer) ==
            Question("RELATION", category, qtype, template, args, answer)
    IN
    << R("NODE_INSTANCE", "OPEN", "What is the node type of node instance", <<n.name>>,
         {<<n.node_type.name>>}) >>
    \o AssignQuestions(n.name, n.param_assigns, "PARAMETER_ASSIGN",
           "Which parameters are assigned in node instance",
           "What value is assigned to parameter in node instance")
    \o AssignQuestions(n.name, n.context_assigns, "CONTEXT_ASSIGN",
           "Which contexts are assigned in node instance",
           "What value is assigned to context in node instance")
    \o << R("REMAP", "OPEN", "Which remaps are declared in node instance", <<n.name>>,
            CommaList({n.remaps[i].frm \o <<"->">> \o n.remaps[i].to : i \in 1..Len(n.remaps)})) >>
    \o Each(n.remaps, LAMBDA r :
        <<R("REMAP", "BOOL", "Does node instance remap", <<n.name, r.frm, r.to>>, Yes)>>)
    \o << R("PUBLISH", "OPEN", "To which topics can node publish", <<n.name>>,
            CommaList(EffectivePublishes(n))),
          R("SUBSCRIBE", "OPEN", "To which topics is node subscribed", <<n.name>>,
            CommaList(EffectiveSubscribes(n))),
          R("SERVICE", "OPEN", "Which services does node provide", <<n.name>>,
            CommaList(EffectiveProvides(n))),
          R("CLIENT", "OPEN", "Which services does node use as a client", <<n.name>>,
            CommaList(EffectiveUses(n))) >>
    \o Each(SeqOfSet(n.node_type.consumes_content_services), LAMBDA c :
        << R("CONTENT_SERVICE", "BOOL",
             "Does node consume a service whose name is provided by parameter",
             <<n.name, <<c[2]>>>>, Yes),
           R("CONTENT_SERVICE", "BOOL",
             "Is parameter assigned in node instance for resolving the consumed service name",
             <<<<c[2]>>, n.name>>, BoolYesNo(c[2] \in DOMAIN n.param_assigns)) >>
        \o (IF c[2] \in DOMAIN n.param_assigns
            THEN LET resolved_name == ApplyRemaps(StripQuotes(n.param_assigns[c[2]].value), n) IN
                 << R("CONTENT_SERVICE", "OPEN",
                      "What is the resolved consumed service name for node (via parameter)",
                      <<n.name, <<c[2]>>>>,
                      IF resolved_name = <<>> THEN {OpenUnknown} ELSE {resolved_name}),
                    R("CONTENT_SERVICE", "OPEN",
                      "What is the declared type of the consumed service resolved via parameter in node",
                      <<<<c[2]>>, n.name>>, OptUnknown(c[3])) >>
            ELSE <<>>))

\* the names of the nodes whose effective set in a direction holds the name
NodesWith(g, fn, name) ==
    {g.nodes[k].name : k \in {x \in DOMAIN g.nodes : name \in EffectiveIn(fn, g.nodes[x])}}

\* sname.startswith("content(")
StartsWithContent(sname) == sname # <<>> /\ Head(sname) = ContentOpen

\* Level 1: the records of one topic
TopicQuestions(g, t) ==
    << Question("RELATION", "TOPIC_TYPE", "OPEN", "What is the type of topic", <<t.name>>,
                OptUnknown(t.type)),
       Question("RELATION", "PUBLISH", "OPEN", "Which nodes publish to topic", <<t.name>>,
                CommaList(NodesWith(g, "publishes", t.name))),
       Question("RELATION", "SUBSCRIBE", "OPEN", "Which nodes subscribe to topic", <<t.name>>,
                CommaList(NodesWith(g, "subscribes", t.name))) >>

\* Level 1: the records of one service; a client name that starts with
\* content( is not counted
ServiceQuestions(g, sv) ==
    << Question("RELATION", "SERVICE_TYPE", "OPEN", "What is the type of service", <<sv.name>>,
                OptUnknown(sv.type)),
       Question("RELATION", "SERVICE", "OPEN", "Which nodes provide service", <<sv.name>>,
                CommaList(NodesWith(g, "provides", sv.name))),
       Question("RELATION", "CLIENT", "OPEN", "Which nodes use service as a client", <<sv.name>>,
                CommaList(IF StartsWithContent(sv.name) THEN {}
                          ELSE NodesWith(g, "uses", sv.name))) >>

NoPolicyQuestions(pol) == <<>>

\* Level 1: the records of one policy instance
PolicyQuestions(pol) ==
    LET n == <<pol.name>> IN
    << Question("RELATION", "POLICY", "BOOL", "Is there a policy instance called", <<n>>, Yes),
       Question("RELATION", "POLICY", "OPEN", "What is the kind of policy instance", <<n>>,
                {<<pol.kind>>}),
       Question("RELATION", "POLICY", "OPEN", "What settings are defined in policy instance", <<n>>,
                CommaList({<<k, "=">> \o pol.settings[k] : k \in DOMAIN pol.settings})) >>
    \o Each(SeqOfSet(DOMAIN pol.settings), LAMBDA k :
        <<Question("RELATION", "POLICY", "OPEN", "What is the value of setting in policy instance",
                   <<<<k>>, n>>, StripOr(pol.settings[k], OpenUnknown))>>)

\* Level 1: the records of one type alias
TypeAliasQuestions(al) ==
    << Question("RELATION", "TYPE_ALIAS", "BOOL", "Is there a type alias called", <<<<al.name>>>>, Yes),
       Question("RELATION", "TYPE_ALIAS", "OPEN", "What is the definition of type alias",
                <<<<al.name>>>>, OptUnknown(al.definition)) >>

\* Level 1: the records of one message alias
MessageAliasQuestions(ma) ==
    LET n == <<ma.name>> IN
    << Question("RELATION", "MESSAGE_ALIAS", "BOOL", "Is there a message alias called", <<n>>, Yes),
       Question("RELATION", "MESSAGE_ALIAS", "OPEN", "What is the base message type of message alias",
                <<n>>, OptUnknown(ma.base_type)),
       Question("RELATION", "MESSAGE_FIELD", "OPEN", "Which fields are defined in message alias", <<n>>,
                CommaList({<<ma.fields[i].name>> : i \in 1..Len(ma.fields)})) >>
    \o Each(ma.fields, LAMBDA f :
        <<Question("RELATION", "MESSAGE_FIELD", "OPEN", "What is the type of field in message alias",
                   <<<<f.name>>, n>>, OptUnknown(f.type))>>)

\* the while loop of _has_communication_path run to its end, a neighbour set
\* being iterated in the order SeqOfSet gives it
RECURSIVE Bfs(_, _, _, _)
Bfs(a, dst, vis, q) ==
    IF q = <<>> THEN FALSE
    ELSE LET r == Scan_nbrs(SeqOfSet(AdjGet(a, Head(q))), 1, dst, vis, Tail(q)) IN
         IF r.found THEN TRUE ELSE Bfs(a, dst, r.visited, r.queue)

\* _has_communication_path as generate_questions calls it
HasCommunicationPath(src, dst, g) ==
    IF src = dst THEN FALSE ELSE Bfs(BuildAdjacency(g.nodes), dst, {src}, <<src>>)

\* Level 2 without the test src.name == dst.name
PathQuestionsWithSelf(g, node_list) ==
    Each(node_list, LAMBDA src :
        Each(node_list, LAMBDA dst :
            <<Question("PATH", "MESSAGE", "BOOL", "Is there a communication path from node to node",
                       <<src.name, dst.name>>,
                       BoolYesNo(HasCommunicationPath(src.name, dst.name, g)))>>))

\* Level 2: one record for each pair of nodes of different names
PathQuestions(g, node_list) ==
    Each(node_list, LAMBDA src :
        Each(node_list, LAMBDA dst :
            IF src.name = dst.name THEN <<>>
            ELSE <<Question("PATH", "MESSAGE", "BOOL", "Is there a communication path from node to node",
                            <<src.name, dst.name>>,
                            BoolYesNo(HasCommunicationPath(src.name, dst.name, g)))>>))

\* entity_names: the names of the nodes, then of the topics, then of the
\* services
EntityNames(g) ==
    LET node_list == ValuesOf(g.nodes)
        topic_list == ValuesOf(g.topics)
        service_list == ValuesOf(g.services)
    IN  [i \in 1..Len(node_list) |-> node_list[i].name]
        \o [i \in 1..Len(topic_list) |-> topic_list[i].name]
        \o [i \in 1..Len(service_list) |-> service_list[i].name]

\* the records generate_questions appends after the ENTITY section: the node
\* type, node instance, topic, service, policy, type alias, message alias and
\* path families, in this order
FamilyQuestions(g) ==
    Each(ValuesOf(g.node_types), NodeTypeQuestions)
    \o Each(ValuesOf(g.nodes), NodeInstanceQuestions)
    \o Each(ValuesOf(g.topics), LAMBDA t : TopicQuestions(g, t))
    \o Each(ValuesOf(g.services), LAMBDA sv : ServiceQuestions(g, sv))
    \o Each(ValuesOf(g.qos_policies), PolicyQuestions)
    \o Each(ValuesOf(g.type_aliases), TypeAliasQuestions)
    \o Each(ValuesOf(g.message_aliases), MessageAliasQuestions)
    \o PathQuestions(g, ValuesOf(g.nodes))

\* generate_questions(graph, include_negative_entities=...,
\* negative_entities_per_file=...); fakes is what _generate_fake_entities
\* returned
GenerateQuestions(include_negative_entities, negative_entities_per_file) ==
    /\ pc = "loaded"
    /\ LET entity_names == EntityNames(GraphOf)
           families == FamilyQuestions(GraphOf)
       IN  \E fakes \in (IF include_negative_entities
                         THEN FakeEntities(entity_names, negative_entities_per_file)
                         ELSE {{}}) :
                questions' = EntityQuestions(GraphOf, entity_names, fakes) \o families
    /\ pc' = "generated"
    /\ UNCHANGED <<text, pos, graphVars, queryVars, eff, first>>

(***************************************************************************)
(* Graphs handed to generate_questions: loaded from a text, or built       *)
(* through the model classes                                               *)
(***************************************************************************)
\* statements that declare a topic and a service of the same name
SharedStmtPool ==
    { Item("pub", Scan, ScanType),
      Item("prov", Scan, SrvType),
      Item("uses", RealService, AltType) }

\* nothing, or one policy, one type alias or one message alias
Preambles ==
    { <<>>,
      PolicyDecl("best_effort_qos", "QoS", <<Item("setting", <<"depth">>, <<"10">>)>>),
      <<Item("typealias", <<"Meters">>, <<"float64">>)>>,
      MessageAliasDecl("Pose2D", <<"geometry_msgs/Pose">>, <<Item("field", <<"x">>, <<"float64">>)>>) }

\* a system block whose only instance is of an undeclared type
UnknownSystem == SystemDecl(InstanceDecl("x", "Unknown", <<>>))

QuestionTexts ==
    { pre \o types \o sys :
        <<pre, types, sys>> \in
            Preambles
            \X ({<<>>} \cup {TypeDecl("Producer", b) :
                                b \in UNION {[1..k -> SharedStmtPool] : k \in 0..MaxStmts}})
            \X {<<>>, UnknownSystem, ScenarioSystem} }

\* node names of the built graphs; the second is also the name of a topic
BuiltNameSeq == << <<"p">>, Scan, <<"c">>, <<"q">> >>
BuiltNames == {BuiltNameSeq[i] : i \in 1..MaxNodes}

\* the Topic or Service entries of the names the node types declare in the
\* two directions given by the fields f1 and f2
EntriesOf(types, f1, f2) ==
    LET decls == UNION {types[t][f1] \cup types[t][f2] : t \in DOMAIN types} IN
    [nm \in DeclaredNames(decls) |->
        [name |-> nm, type |-> (CHOOSE d \in decls : d[1] = nm)[2]]]

InitQuestions ==
    /\ pos = 1
    /\ qos_policies = Empty
    /\ type_aliases = Empty
    /\ message_aliases = Empty
    /\ IdleQuery
    /\ \/ /\ text \in QuestionTexts
          /\ pc = "policies"
          /\ node_types = Empty
          /\ nodes = Empty
          /\ topics = Empty
          /\ services = Empty
       \/ /\ text = <<>>
          /\ pc = "loaded"
          /\ \E S \in SUBSET BuiltNames : \E f \in [S -> CallPool] :
               /\ nodes = [n \in S |-> MkNode(n, f[n])]
               /\ node_types = TypesOf(nodes)
               /\ topics = EntriesOf(node_types, "publishes", "subscribes")
               /\ services = EntriesOf(node_types, "provides", "uses")

NextQuestions ==
    \/ ParseQosPolicies
    \/ ParseTypeAliases
    \/ ParseMessageAliases
    \/ ParseNodeTypeBlock
    \/ EndNodeTypes
    \/ ParseSystemInstances
    \/ \E inc \in BOOLEAN, cnt \in 0..MaxFakes : GenerateQuestions(inc, cnt)

SpecQuestions == InitQuestions /\ [][NextQuestions]_vars

(***************************************************************************)
(* Properties of generate_questions, checked under SpecQuestions           *)
(***************************************************************************)
Generated == pc = "generated"

\* the positions of the ENTITY-level records of a qtype about a name; of the
\* existence records, those that answer Yes
EntityRecords(name, qtype) ==
    {i \in 1..Len(questions) :
        /\ questions[i].level = "ENTITY"
        /\ questions[i].category = "ENTITY"
        /\ questions[i].qtype = qtype
        /\ questions[i].question.args = <<name>>
        /\ qtype = "BOOL" => questions[i].answer = Yes}

\* C15: for every name that is a node, a topic or a service of the graph the
\* list holds exactly one ENTITY-level existence record answering Yes and
\* exactly one ENTITY-level kind record, also for a name shared across kinds.
C15_OncePerName ==
    Generated =>
        \A name \in DOMAIN nodes \cup DOMAIN topics \cup DOMAIN services :
            /\ Cardinality(EntityRecords(name, "BOOL")) = 1
            /\ Cardinality(EntityRecords(name, "MCQ")) = 1

\* the text holds a statement of one of the kinds
Declares(seq, kinds) == \E i \in 1..Len(seq) : seq[i].k \in kinds

NoEntities ==
    /\ DOMAIN nodes = {} /\ DOMAIN node_types = {}
    /\ DOMAIN topics = {} /\ DOMAIN services = {}
    /\ DOMAIN qos_policies = {} /\ DOMAIN type_aliases = {} /\ DOMAIN message_aliases = {}

\* C16 as stated: for a graph loaded from a text that declares a node type, a
\* node instance, a topic, a service, a policy or an alias, generate_questions
\* returns a non-empty list; for a graph with no entities it returns an empty
\* list.
C16_NonEmptyForAnyDeclaration ==
    Generated =>
        /\ Declares(text, {"nodetype", "instance", "pub", "sub", "prov", "uses",
                           "policy", "typealias", "msgalias"}) => questions # <<>>
        /\ NoEntities => questions = <<>>

\* C16 amended: the same for a text that declares a node type, a policy, a
\* type alias or a message alias (a topic or a service is declared inside a
\* node type; a node instance alone, being of an undeclared type, is dropped).
C16_NonEmptyForKeptDeclaration ==
    Generated =>
        /\ Declares(text, {"nodetype", "policy", "typealias", "msgalias"}) => questions # <<>>
        /\ NoEntities => questions = <<>>

\* C16 witness: the list returned for a text that declares one policy and
\* nothing else holds the four records of the policy
C16_PolicyOnly ==
    /\ Generated
    /\ Declares(text, {"policy"})
    /\ ~Declares(text, {"nodetype", "instance"})
    /\ Len(questions) = 4

\* the positions of the PATH-level records
PathRecords == {i \in 1..Len(questions) : questions[i].level = "PATH"}

\* the positions of the PATH-level records about the pair src, dst
PathRecordsOf(src, dst) == {i \in PathRecords : questions[i].question.args = <<src, dst>>}

\* C24: the list holds exactly one PATH-level record for every ordered pair
\* of distinct node instances and none for a node with itself, n * (n - 1)
\* records for n nodes; the record of (src, dst) answers Yes when a path of
\* one or more edges leads from src to dst and No otherwise.
C24_OnePathRecordPerPair ==
    Generated =>
        /\ \A src, dst \in DOMAIN nodes :
              IF src = dst
              THEN PathRecordsOf(src, dst) = {}
              ELSE /\ Cardinality(PathRecordsOf(src, dst)) = 1
                   /\ \A i \in PathRecordsOf(src, dst) :
                         /\ questions[i].category = "MESSAGE"
                         /\ questions[i].qtype = "BOOL"
                         /\ questions[i].answer =
                               IF PathExists(BuildAdjacency(nodes), src, dst) THEN Yes ELSE No
        /\ Cardinality(PathRecords) = Cardinality(DOMAIN nodes) * (Cardinality(DOMAIN nodes) - 1)

\* C24 witness: the list of a graph of three nodes holds six PATH-level
\* records, one answered Yes whose reverse is answered No
C24_YesAndNo ==
    /\ Generated
    /\ Cardinality(DOMAIN nodes) = 3
    /\ Cardinality(PathRecords) = 6
    /\ \E i, j \in PathRecords :
          /\ questions[i].question.args[1] = questions[j].question.args[2]
          /\ questions[i].question.args[2] = questions[j].question.args[1]
          /\ questions[i].answer = Yes
          /\ questions[j].answer = No

(***************************************************************************)
(* generate_questions with the loop of _generate_fake_entities taken one   *)
(* iteration at a time                                                     *)
(***************************************************************************)
\* attempts < count * 30
AttemptsPerName == 30

\* generate_questions up to the call _generate_fake_entities(entity_names,
\* count=negative_entities_per_file), which returns [] at once for no names
\* or a count <= 0; without include_negative_entities the call is not made
BeginQuestions(include_negative_entities, negative_entities_per_file) ==
    /\ pc = "loaded"
    /\ gen' = IF include_negative_entities
              THEN [called |-> TRUE, real_names |-> EntityNames(GraphOf),
                    count |-> negative_entities_per_file, fake |-> {}, attempts |-> 0]
              ELSE NoFakeCall
    /\ pc' = "fakes"
    /\ UNCHANGED <<text, pos, graphVars, qsrc, qdst, adj, visited, queue, result,
                   dequeues, answers, eff, first, questions>>

\* while len(fake) < count and attempts < count * 30
FakeLoopRuns ==
    /\ gen.called
    /\ gen.real_names # <<>>
    /\ gen.count > 0
    /\ Cardinality(gen.fake) < gen.count
    /\ gen.attempts < gen.count * AttemptsPerName

\* an iteration that adds the candidate whether or not it is a real name
FakeAttemptNoBaseCheck ==
    /\ pc = "fakes"
    /\ FakeLoopRuns
    /\ \E i \in 1..Len(gen.real_names), suffix \in Suffixes :
         LET candidate == gen.real_names[i] \o <<"_x", suffix>> IN
         gen' = [gen EXCEPT !.fake = @ \cup {candidate}, !.attempts = @ + 1]
    /\ UNCHANGED <<text, pos, pc, graphVars, qsrc, qdst, adj, visited, queue, result,
                   dequeues, answers, eff, first, questions>>

\* one iteration of the while loop, for any original and suffix
\* random.choice may draw
FakeAttempt ==
    /\ pc = "fakes"
    /\ FakeLoopRuns
    /\ \E i \in 1..Len(gen.real_names), suffix \in Suffixes :
         LET base == {gen.real_names[k] : k \in 1..Len(gen.real_names)}
             candidate == gen.real_names[i] \o <<"_x", suffix>>
         IN  gen' = [gen EXCEPT
                        !.fake = IF candidate \notin base /\ candidate \notin @
                                 THEN @ \cup {candidate} ELSE @,
                        !.attempts = @ + 1]
    /\ UNCHANGED <<text, pos, pc, graphVars, qsrc, qdst, adj, visited, queue, result,
                   dequeues, answers, eff, first, questions>>

\* the loop has ended (or was never entered): the records of the returned
\* names, then the rest of generate_questions
FinishQuestions ==
    /\ pc = "fakes"
    /\ ~FakeLoopRuns
    /\ questions' = EntityQuestions(GraphOf, EntityNames(GraphOf), gen.fake)
                    \o FamilyQuestions(GraphOf)
    /\ pc' = "generated"
    /\ UNCHANGED <<text, pos, graphVars, queryVars, eff, first>>

\* node names of the graphs: the second is a name the loop may draw as a
\* candidate for the first, which is also the name of a topic
FakeNameSeq == << Scan, Scan \o <<"_x", "zz">>, <<"p">>, <<"q">> >>
FakeNames == {FakeNameSeq[i] : i \in 1..MaxNodes}

FakePool ==
    { Template(Producer, NoAssigns, <<>>),
      Template(Server, NoAssigns, <<>>) }

InitFakes ==
    /\ text = <<>>
    /\ pos = 1
    /\ pc = "loaded"
    /\ qos_policies = Empty
    /\ type_aliases = Empty
    /\ message_aliases = Empty
    /\ IdleQuery
    /\ \E S \in SUBSET FakeNames : \E f \in [S -> FakePool] :
         /\ nodes = [n \in S |-> MkNode(n, f[n])]
         /\ node_types = TypesOf(nodes)
         /\ topics = EntriesOf(node_types, "publishes", "subscribes")
         /\ services = EntriesOf(node_types, "provides", "uses")

NextFakes ==
    \/ \E inc \in BOOLEAN, cnt \in (-1)..MaxFakes : BeginQuestions(inc, cnt)
    \/ FakeAttempt
    \/ FinishQuestions

SpecFakes == InitFakes /\ [][NextFakes]_vars

RealNames == DOMAIN nodes \cup DOMAIN topics \cup DOMAIN services

\* the positions of the ENTITY existence records answered No
NoRecords ==
    {i \in 1..Len(questions) :
        /\ questions[i].level = "ENTITY"
        /\ questions[i].qtype = "BOOL"
        /\ questions[i].answer = No}

\* C23: the loop of _generate_fake_entities runs at most count * 30 times; it
\* returns at most count pairwise distinct names, none of them a real name,
\* and no name at all when there is no real name or count <= 0; the list of
\* generate_questions holds no existence record answered No for the name of a
\* node, a topic or a service.
C23_FakeNamesNotReal ==
    /\ gen.attempts <= IF gen.count > 0 THEN gen.count * AttemptsPerName ELSE 0
    /\ Cardinality(gen.fake) <= IF gen.count > 0 THEN gen.count ELSE 0
    /\ gen.fake \cap RealNames = {}
    /\ (gen.real_names = <<>> \/ gen.count <= 0) => (gen.fake = {} /\ gen.attempts = 0)
    /\ Generated =>
          /\ \A i \in NoRecords : questions[i].question.args[1] \notin RealNames
          /\ \A i, j \in NoRecords :
                questions[i].question.args = questions[j].question.args => i = j
          /\ {questions[i].question.args[1] : i \in NoRecords} = gen.fake

\* C23 witness: every one of the count * 30 attempts drew a candidate that is
\* a real name, and the list was generated without a fake name
C23_AttemptsExhausted ==
    /\ Generated
    /\ gen.count = 1
    /\ gen.attempts = AttemptsPerName
    /\ gen.fake = {}
    /\ \E n \in RealNames : n \o <<"_x", "zz">> \in RealNames

====
